---- MODULE Spec2Model ----
(***************************************************************************)
(* A model of any-llm-code-review: the diff annotator                      *)
(* (CodeReviewer.annotate_diff_with_line_numbers), the ignore-pattern      *)
(* test (CodeReviewer.should_ignore_file), CodeReviewer.review_changes     *)
(* (file selection, fast path, prompt, agent run) and                      *)
(* GitHubReviewPoster.post_review.                                         *)
(*                                                                         *)
(* Text is a sequence of one-character strings, so that splitting,         *)
(* joining, integer parsing and integer formatting are computed character  *)
(* by character the way the Python code computes them.                     *)
(***************************************************************************)
EXTENDS Integers, Sequences, FiniteSets, TLC

VARIABLES
    src,           \* the lines the diff text was assembled from (input description)
    diff,          \* annotate_diff_with_line_numbers: the argument, a text
    lines,         \* annotate_diff_with_line_numbers: diff.split('\n')
    idx,           \* index of the next element of lines the for loop takes
    result,        \* annotate_diff_with_line_numbers: the list result
    current_line,  \* annotate_diff_with_line_numbers: None or <<k>>
    trace,         \* the values of current_line before each line taken so far
    ret,           \* the returned text, once returned
    exc,           \* the exception that left the function, "" when none
    pc,            \* position in the function
    config,        \* CodeReviewer.config: ignore_patterns and max_file_size
    file_changes,  \* review_changes: the argument, (path, diff) in dict order
    filtered_changes,  \* review_changes: the dict filtered_changes, in dict order
    rpc,           \* position in review_changes
    pr_title,      \* review_changes: the argument pr_title
    pr_description,  \* review_changes: the argument pr_description
    agent_calls,   \* the prompts handed to self.agent.run, in order
    model_output,  \* result.output of the agent run, None before it
    review_result, \* what review_changes returned, None before it returns
    rexc,          \* the exception that left review_changes, "" when none
    review,        \* post_review: the argument
    review_title,  \* GitHubReviewPoster.review_title
    calls,         \* the calls made on self.pr, in order, each with its outcome
    ppc,           \* position in post_review
    command,       \* the command run: "review_pr" or "review_pr_from_env"
    pr,            \* the pull request on GitHub: title, body, files
    mpc,           \* position in the command
    ops,           \* the external operations of the run, in order
    exit_code,     \* the exit status of the process, None while it runs
    environ,       \* os.environ of the process
    environ_alone, \* os.environ of a process in which only the later run happens
    cfgs,          \* the ReviewConfig of the earlier and of the later run
    model,         \* CodeReviewer.model of the later run, None before it
    cpc,           \* how many CodeReviewer have been constructed
    getenv,        \* from_env: the environment and the event payload file
    pr_number,     \* from_env: pr_number handed to cls(...), None before
    eexc,          \* from_env: the exception raised, "" when none
    epc            \* position in from_env

\* The variables of a call of annotate_diff_with_line_numbers.
annVars == <<src, diff, lines, idx, result, current_line, trace, ret, exc, pc>>

\* The variables of a call of review_changes.
revVars == <<config, file_changes, filtered_changes, rpc>>

\* The variables of the prompt and the model call of review_changes.
orchVars == <<pr_title, pr_description, agent_calls, model_output, review_result, rexc>>

\* The variables of a call of post_review.
postVars == <<review, review_title, calls, ppc>>

\* The variables of a run of one of the two commands.
mainVars == <<command, pr, mpc, ops, exit_code>>

\* The variables of the construction of CodeReviewer, twice in one process.
ctorVars == <<environ, environ_alone, cfgs, model, cpc>>

\* The variables of a call of GitHubReviewPoster.from_env.
envVars == <<getenv, pr_number, eexc, epc>>

vars == <<annVars, revVars, orchVars, postVars, mainVars, ctorVars, envVars>>

\* The longest diff, in lines, that Init enumerates.
MaxLines == 4

\* The most entries of file_changes that InitReview enumerates.
MaxFiles == 2

\* The longest diff text, in characters, of an entry of file_changes.
MaxDiffLen == 3

(***************************************************************************)
(* Python values and string operations                                     *)
(***************************************************************************)

\* Python's None, and an int held in an Optional.
None == << >>
Some(k) == << k >>

Digits == << "0", "1", "2", "3", "4", "5", "6", "7", "8", "9" >>

IsDigit(ch) == \E d \in 1..10 : Digits[d] = ch

DigitVal(ch) == (CHOOSE d \in 1..10 : Digits[d] = ch) - 1

\* str.isspace for the characters of the model.
IsSpace(ch) == ch \in { " ", "\t", "\r", "\n", "\f" }

\* s.startswith(prefix)
StartsWith(s, prefix) ==
    /\ Len(s) >= Len(prefix)
    /\ SubSeq(s, 1, Len(prefix)) = prefix

RECURSIVE SplitFrom(_, _, _, _)
SplitFrom(s, sep, i, cur) ==
    IF i > Len(s) THEN << cur >>
    ELSE IF s[i] = sep THEN << cur >> \o SplitFrom(s, sep, i + 1, << >>)
    ELSE SplitFrom(s, sep, i + 1, Append(cur, s[i]))

\* s.split(sep) for a one-character separator: always at least one part.
Split(s, sep) == SplitFrom(s, sep, 1, << >>)

RECURSIVE SplitWsFrom(_, _, _)
SplitWsFrom(s, i, cur) ==
    IF i > Len(s) THEN (IF cur = << >> THEN << >> ELSE << cur >>)
    ELSE IF IsSpace(s[i])
         THEN (IF cur = << >> THEN << >> ELSE << cur >>) \o SplitWsFrom(s, i + 1, << >>)
         ELSE SplitWsFrom(s, i + 1, Append(cur, s[i]))

\* s.split() with no argument: the runs of non-whitespace, possibly none.
SplitWs(s) == SplitWsFrom(s, 1, << >>)

RECURSIVE Join(_, _)
\* sep.join(parts)
Join(parts, sep) ==
    IF parts = << >> THEN << >>
    ELSE IF Len(parts) = 1 THEN parts[1]
    ELSE parts[1] \o << sep >> \o Join(Tail(parts), sep)

\* The token without a leading sign.
Unsigned(tok) ==
    IF tok # << >> /\ tok[1] \in { "-", "+" } THEN Tail(tok) ELSE tok

\* Whether int(tok) succeeds for a token without surrounding whitespace:
\* an optional sign, then digits, single underscores only between digits.
IsIntLiteral(tok) ==
    LET body == Unsigned(tok) IN
    /\ body # << >>
    /\ IsDigit(body[1])
    /\ IsDigit(body[Len(body)])
    /\ \A i \in 1..Len(body) : IsDigit(body[i]) \/ body[i] = "_"
    /\ \A i \in 1..(Len(body) - 1) : ~(body[i] = "_" /\ body[i + 1] = "_")

RECURSIVE DigitsVal(_, _)
DigitsVal(body, acc) ==
    IF body = << >> THEN acc
    ELSE IF body[1] = "_" THEN DigitsVal(Tail(body), acc)
    ELSE DigitsVal(Tail(body), 10 * acc + DigitVal(body[1]))

\* int(tok) where IsIntLiteral(tok).
IntVal(tok) ==
    IF tok[1] = "-" THEN 0 - DigitsVal(Unsigned(tok), 0)
    ELSE DigitsVal(Unsigned(tok), 0)

RECURSIVE NatToStr(_)
NatToStr(n) ==
    IF n < 10 THEN << Digits[n + 1] >>
    ELSE NatToStr(n \div 10) \o << Digits[(n % 10) + 1] >>

\* str(n) for an int, as the f-string formats it.
IntToStr(n) == IF n < 0 THEN << "-" >> \o NatToStr(0 - n) ELSE NatToStr(n)

(***************************************************************************)
(* annotate_diff_with_line_numbers                                         *)
(***************************************************************************)

\* f"[Line {current_line}] {line}"
Tagged_AfterMarker(k, line) ==
    << line[1] >> \o << "[", "L", "i", "n", "e", " " >> \o IntToStr(k) \o << "]", " " >> \o Tail(line)

Tagged(k, line) ==
    << "[", "L", "i", "n", "e", " " >> \o IntToStr(k) \o << "]", " " >> \o line

\* line.startswith('@@')
IsHeader(line) == StartsWith(line, << "@", "@" >>)

\* HeaderStep reading the number after the '-' of the header, the old-file
\* start, instead of the number after the '+'.
HeaderStep_OldSide(line, cur) ==
    LET parts == Split(line, "-") IN
    IF Len(parts) >= 2
    THEN LET toks == SplitWs(Split(parts[2], ",")[1]) IN
         IF toks = << >>
         THEN [exc |-> "IndexError", current_line |-> cur]
         ELSE IF IsIntLiteral(toks[1])
              THEN [exc |-> "", current_line |-> Some(IntVal(toks[1]))]
              ELSE [exc |-> "", current_line |-> None]
    ELSE [exc |-> "", current_line |-> cur]

\* HeaderStep that parses the first header only and lets the counter run on
\* across later headers.
HeaderStep_KeepsCounter(line, cur) ==
    LET parts == Split(line, "+") IN
    IF cur = None /\ Len(parts) >= 2
    THEN LET toks == SplitWs(Split(parts[2], ",")[1]) IN
         IF toks = << >>
         THEN [exc |-> "IndexError", current_line |-> cur]
         ELSE IF IsIntLiteral(toks[1])
              THEN [exc |-> "", current_line |-> Some(IntVal(toks[1]))]
              ELSE [exc |-> "", current_line |-> None]
    ELSE [exc |-> "", current_line |-> cur]

\* The body of `if line.startswith('@@')`: the new value of current_line, or
\* the exception that the indexing [0] of an empty list raises.
HeaderStep(line, cur) ==
    LET parts == Split(line, "+") IN
    IF Len(parts) >= 2
    THEN LET toks == SplitWs(Split(parts[2], ",")[1]) IN
         IF toks = << >>
         THEN [exc |-> "IndexError", current_line |-> cur]
         ELSE IF IsIntLiteral(toks[1])
              THEN [exc |-> "", current_line |-> Some(IntVal(toks[1]))]
              ELSE [exc |-> "", current_line |-> None]
    ELSE [exc |-> "", current_line |-> cur]

\* LineStep that tags a context line without advancing the counter.
LineStep_ContextNotCounted(line, cur) ==
    IF IsHeader(line)
    THEN LET h == HeaderStep(line, cur) IN
         [out |-> line, current_line |-> h.current_line, exc |-> h.exc]
    ELSE IF cur = None
    THEN [out |-> line, current_line |-> cur, exc |-> ""]
    ELSE IF StartsWith(line, << "-" >>)
    THEN [out |-> line, current_line |-> cur, exc |-> ""]
    ELSE IF StartsWith(line, << "+" >>)
    THEN [out |-> Tagged(cur[1], line), current_line |-> Some(cur[1] + 1), exc |-> ""]
    ELSE IF StartsWith(line, << " " >>)
    THEN [out |-> Tagged(cur[1], line), current_line |-> cur, exc |-> ""]
    ELSE [out |-> line, current_line |-> cur, exc |-> ""]

\* LineStep that advances the counter over a deletion line.
LineStep_DeletionCounted(line, cur) ==
    IF IsHeader(line)
    THEN LET h == HeaderStep(line, cur) IN
         [out |-> line, current_line |-> h.current_line, exc |-> h.exc]
    ELSE IF cur = None
    THEN [out |-> line, current_line |-> cur, exc |-> ""]
    ELSE IF StartsWith(line, << "-" >>)
    THEN [out |-> line, current_line |-> Some(cur[1] + 1), exc |-> ""]
    ELSE IF StartsWith(line, << "+" >>)
    THEN [out |-> Tagged(cur[1], line), current_line |-> Some(cur[1] + 1), exc |-> ""]
    ELSE IF StartsWith(line, << " " >>)
    THEN [out |-> Tagged(cur[1], line), current_line |-> Some(cur[1] + 1), exc |-> ""]
    ELSE [out |-> line, current_line |-> cur, exc |-> ""]

\* One pass of the for loop over a line: what is appended to result, the new
\* current_line, and the exception raised, if any.
LineStep(line, cur) ==
    IF IsHeader(line)
    THEN LET h == HeaderStep(line, cur) IN
         [out |-> line, current_line |-> h.current_line, exc |-> h.exc]
    ELSE IF cur = None
    THEN [out |-> line, current_line |-> cur, exc |-> ""]
    ELSE IF StartsWith(line, << "-" >>)
    THEN [out |-> line, current_line |-> cur, exc |-> ""]
    ELSE IF StartsWith(line, << "+" >>)
    THEN [out |-> Tagged(cur[1], line), current_line |-> Some(cur[1] + 1), exc |-> ""]
    ELSE IF StartsWith(line, << " " >>)
    THEN [out |-> Tagged(cur[1], line), current_line |-> Some(cur[1] + 1), exc |-> ""]
    ELSE [out |-> line, current_line |-> cur, exc |-> ""]

(***************************************************************************)
(* The diffs Init enumerates                                               *)
(***************************************************************************)

\* "@@ -a,m +c,n @@"
RenderHeader(a, m, c, n) ==
    << "@", "@", " ", "-" >> \o IntToStr(a) \o << "," >> \o IntToStr(m)
        \o << " ", "+" >> \o IntToStr(c) \o << "," >> \o IntToStr(n)
        \o << " ", "@", "@" >>

Hunk(a, m, c, n) ==
    [kind |-> "hunk", c |-> c, n |-> n, m |-> m, text |-> RenderHeader(a, m, c, n)]

Raw(kind, text) == [kind |-> kind, c |-> 0, n |-> 0, m |-> 0, text |-> text]

\* Well-formed hunk headers.
HunkLines == { Hunk(1, 1, 1, 2), Hunk(8, 2, 9, 2) }

\* Lines starting with '@@' from which no new-file start can be read.
BadHeaderLines ==
    { Raw("noplus", << "@", "@", " ", "-", "1", " ", "@", "@" >>),
      Raw("plusend", << "@", "@", " ", "-", "1", " ", "+" >>),
      Raw("pluscomma", << "@", "@", " ", "-", "1", " ", "+", ",", "2", " ", "@", "@" >>),
      Raw("nonnum", << "@", "@", " ", "-", "1", " ", "+", "x", ",", "2", " ", "@", "@" >>) }

\* Lines of a hunk body, and lines of no kind.
BodyLines ==
    { Raw("ctx", << " ", "a" >>),
      Raw("add", << "+", "a" >>),
      Raw("del", << "-", "a" >>),
      Raw("blank", << >>),
      Raw("marker", << "\\", " ", "N" >>) }

InputLines == HunkLines \cup BadHeaderLines \cup BodyLines

RECURSIVE Texts(_)
Texts(s) == IF s = << >> THEN << >> ELSE << s[1].text >> \o Texts(Tail(s))

Diffs == UNION { [1..k -> InputLines] : k \in 0..MaxLines }

(***************************************************************************)
(* The values of the variables of a function that is not running           *)
(***************************************************************************)

AnnIdle ==
    /\ src = << >>
    /\ diff = << >>
    /\ lines = << >>
    /\ idx = 0
    /\ result = << >>
    /\ current_line = None
    /\ trace = << >>
    /\ ret = << >>
    /\ exc = ""
    /\ pc = "idle"

RevIdle ==
    /\ config = [ignore_patterns |-> << >>, max_file_size |-> 0]
    /\ file_changes = << >>
    /\ filtered_changes = << >>
    /\ rpc = "idle"

OrchIdle ==
    /\ pr_title = << >>
    /\ pr_description = << >>
    /\ agent_calls = << >>
    /\ model_output = None
    /\ review_result = None
    /\ rexc = ""

PostIdle ==
    /\ review = [summary |-> << >>, comments |-> << >>, approved |-> TRUE]
    /\ review_title = << >>
    /\ calls = << >>
    /\ ppc = "idle"

MainIdle ==
    /\ command = ""
    /\ pr = [title |-> << >>, body |-> None, files |-> << >>]
    /\ mpc = "idle"
    /\ ops = << >>
    /\ exit_code = None

CtorIdle ==
    /\ environ = << >>
    /\ environ_alone = [start |-> << >>, after |-> << >>]
    /\ cfgs = << >>
    /\ model = None
    /\ cpc = 0

EnvIdle ==
    /\ getenv = [GITHUB_REF |-> None, GITHUB_EVENT_PATH |-> None, event_file |-> None]
    /\ pr_number = None
    /\ eexc = ""
    /\ epc = "idle"

\* No command runs, no CodeReviewer is constructed, from_env is not called.
RestIdle == MainIdle /\ CtorIdle /\ EnvIdle

(***************************************************************************)
(* The state machine of one call                                           *)
(***************************************************************************)

Init ==
    /\ src \in Diffs
    /\ diff = Join(Texts(src), "\n")
    /\ lines = << >>
    /\ idx = 0
    /\ result = << >>
    /\ current_line = None
    /\ trace = << >>
    /\ ret = << >>
    /\ exc = ""
    /\ pc = "start"
    /\ RevIdle
    /\ OrchIdle
    /\ PostIdle
    /\ RestIdle

\* AnnotateBegin with the counter starting at 1 instead of None.
AnnotateBegin_FromOne ==
    /\ pc = "start"
    /\ lines' = Split(diff, "\n")
    /\ idx' = 1
    /\ result' = << >>
    /\ current_line' = Some(1)
    /\ pc' = "loop"
    /\ UNCHANGED << src, diff, trace, ret, exc >>
    /\ UNCHANGED << revVars, orchVars, postVars, mainVars, ctorVars, envVars >>

\* lines = diff.split('\n'); result = []; current_line = None
AnnotateBegin ==
    /\ pc = "start"
    /\ lines' = Split(diff, "\n")
    /\ idx' = 1
    /\ result' = << >>
    /\ current_line' = None
    /\ pc' = "loop"
    /\ UNCHANGED << src, diff, trace, ret, exc >>
    /\ UNCHANGED << revVars, orchVars, postVars, mainVars, ctorVars, envVars >>

\* One pass of `for line in lines`.
AnnotateLine ==
    /\ pc = "loop"
    /\ idx <= Len(lines)
    /\ LET step == LineStep(lines[idx], current_line) IN
       /\ trace' = Append(trace, current_line)
       /\ current_line' = step.current_line
       /\ IF step.exc # ""
          THEN /\ exc' = step.exc
               /\ pc' = "raised"
               \* result.append(line) precedes the parse
               /\ result' = Append(result, step.out)
               /\ idx' = idx
          ELSE /\ result' = Append(result, step.out)
               /\ idx' = idx + 1
               /\ UNCHANGED << exc, pc >>
    /\ UNCHANGED << src, diff, lines, ret >>
    /\ UNCHANGED << revVars, orchVars, postVars, mainVars, ctorVars, envVars >>

\* return '\n'.join(result)
AnnotateReturn ==
    /\ pc = "loop"
    /\ idx > Len(lines)
    /\ ret' = Join(result, "\n")
    /\ pc' = "done"
    /\ UNCHANGED << src, diff, lines, idx, result, current_line, trace, exc >>
    /\ UNCHANGED << revVars, orchVars, postVars, mainVars, ctorVars, envVars >>

Next == AnnotateBegin \/ AnnotateLine \/ AnnotateReturn

Spec == Init /\ [][Next]_vars

(***************************************************************************)
(* fnmatch.fnmatch(name, pat) on a POSIX system: the pattern is read into  *)
(* elements the way fnmatch.translate reads it ('*', '?', '[seq]',         *)
(* '[!seq]', anything else literal) and must match the whole name.  A '-'  *)
(* between two characters of a class (a range) is outside the patterns     *)
(* enumerated here.                                                        *)
(***************************************************************************)

Elem(t, neg, members) == [t |-> t, neg |-> neg, members |-> members]

\* The characters of a sequence, as a set.
Chars(s) == { s[i] : i \in 1..Len(s) }

\* The index of the ']' that closes the class opened at pat[i] = '[', or
\* Len(pat) + 1 when there is none: a '!' right after '[' and a ']' right
\* after that are skipped first.
ClassEnd(pat, i) ==
    LET n == Len(pat)
        j1 == IF i + 1 <= n /\ pat[i + 1] = "!" THEN i + 2 ELSE i + 1
        j2 == IF j1 <= n /\ pat[j1] = "]" THEN j1 + 1 ELSE j1
        closers == { j \in j2..n : pat[j] = "]" }
    IN  IF closers = { } THEN n + 1
        ELSE CHOOSE j \in closers : \A x \in closers : j <= x

RECURSIVE TranslateFrom(_, _)
TranslateFrom(pat, i) ==
    IF i > Len(pat) THEN << >>
    ELSE IF pat[i] = "*" THEN << Elem("star", FALSE, { }) >> \o TranslateFrom(pat, i + 1)
    ELSE IF pat[i] = "?" THEN << Elem("any", FALSE, { }) >> \o TranslateFrom(pat, i + 1)
    ELSE IF pat[i] = "["
    THEN LET j == ClassEnd(pat, i) IN
         IF j > Len(pat)
         THEN << Elem("set", FALSE, { "[" }) >> \o TranslateFrom(pat, i + 1)
         ELSE LET stuff == SubSeq(pat, i + 1, j - 1) IN
              (IF stuff[1] = "!"
               THEN << Elem("set", TRUE, Chars(Tail(stuff))) >>
               ELSE << Elem("set", FALSE, Chars(stuff)) >>)
              \o TranslateFrom(pat, j + 1)
    ELSE << Elem("set", FALSE, { pat[i] }) >> \o TranslateFrom(pat, i + 1)

\* fnmatch.translate(pat), as the sequence of elements of the expression.
Translate(pat) == TranslateFrom(pat, 1)

\* Whether an element that takes one character takes ch.
Accepts(el, ch) ==
    IF el.t = "any" THEN TRUE
    ELSE IF el.neg THEN ch \notin el.members
    ELSE ch \in el.members

RECURSIVE MatchFrom(_, _, _, _)
\* Whether elems[i..] matches name[j..] to its end.
MatchFrom(elems, i, name, j) ==
    IF i > Len(elems) THEN j > Len(name)
    ELSE IF elems[i].t = "star"
    THEN \E k \in j..(Len(name) + 1) : MatchFrom(elems, i + 1, name, k)
    ELSE /\ j <= Len(name)
         /\ Accepts(elems[i], name[j])
         /\ MatchFrom(elems, i + 1, name, j + 1)

\* The text after the last '/', as os.path.basename gives it.
Basename(path) ==
    LET parts == Split(path, "/") IN parts[Len(parts)]

\* fnmatch.fnmatch(name, pat)
fnmatch(name, pat) == MatchFrom(Translate(pat), 1, name, 1)

(***************************************************************************)
(* should_ignore_file and the file selection of review_changes             *)
(***************************************************************************)

RECURSIVE should_ignore_file_Basename(_, _)
\* should_ignore_file matching each pattern against the basename of the path.
should_ignore_file_Basename(file_path, ignore_patterns) ==
    IF ignore_patterns = << >> THEN FALSE
    ELSE IF fnmatch(Basename(file_path), Head(ignore_patterns)) THEN TRUE
    ELSE should_ignore_file_Basename(file_path, Tail(ignore_patterns))

RECURSIVE should_ignore_file(_, _)
\* for pattern in self.config.ignore_patterns: return True at the first match.
should_ignore_file(file_path, ignore_patterns) ==
    IF ignore_patterns = << >> THEN FALSE
    ELSE IF fnmatch(file_path, Head(ignore_patterns)) THEN TRUE
    ELSE should_ignore_file(file_path, Tail(ignore_patterns))

RECURSIVE FilterChanges_AtLeast(_, _)
\* FilterChanges dropping a diff as soon as its length reaches max_file_size.
FilterChanges_AtLeast(changes, cfg) ==
    IF changes = << >> THEN << >>
    ELSE LET e == Head(changes)
             rest == FilterChanges_AtLeast(Tail(changes), cfg)
         IN  IF should_ignore_file(e.path, cfg.ignore_patterns) THEN rest
             ELSE IF Len(e.diff) >= cfg.max_file_size THEN rest
             ELSE << e >> \o rest

RECURSIVE FilterChanges_Reversed(_, _)
\* FilterChanges putting each surviving entry in front of the earlier ones.
FilterChanges_Reversed(changes, cfg) ==
    IF changes = << >> THEN << >>
    ELSE LET e == Head(changes)
             rest == FilterChanges_Reversed(Tail(changes), cfg)
         IN  IF should_ignore_file(e.path, cfg.ignore_patterns) THEN rest
             ELSE IF Len(e.diff) > cfg.max_file_size THEN rest
             ELSE rest \o << e >>

RECURSIVE FilterChanges(_, _)
\* The loop over file_changes.items() that fills filtered_changes.
FilterChanges(changes, cfg) ==
    IF changes = << >> THEN << >>
    ELSE LET e == Head(changes)
             rest == FilterChanges(Tail(changes), cfg)
         IN  IF should_ignore_file(e.path, cfg.ignore_patterns) THEN rest
             ELSE IF Len(e.diff) > cfg.max_file_size THEN rest
             ELSE << e >> \o rest

(***************************************************************************)
(* The calls of review_changes that InitReview enumerates                  *)
(***************************************************************************)

P_README == << "R", "E", "A", "D", "M", "E", ".", "m", "d" >>
P_SrcREADME == << "s", "r", "c", "/" >> \o P_README
P_SrcREADMEbak == P_SrcREADME \o << ".", "b", "a", "k" >>
P_Main == << "m", "a", "i", "n", ".", "p", "y" >>

Paths == { P_README, P_SrcREADME, P_SrcREADMEbak, P_Main }

G_StarMd == << "*", ".", "m", "d" >>
G_StarPy == << "*", ".", "p", "y" >>
G_AnyAin == << "?", "a", "i", "n", ".", "p", "y" >>
G_ClassAin == << "[", "l", "m", "]", "a", "i", "n", ".", "p", "y" >>
G_NotMAin == << "[", "!", "m", "]", "a", "i", "n", ".", "p", "y" >>
G_SrcStar == << "s", "r", "c", "/", "*" >>

\* The patterns a configuration can hold.
Patterns == { G_StarMd, G_StarPy, G_AnyAin, G_ClassAin, G_NotMAin, G_SrcStar, P_README }

\* The values of config.ignore_patterns.
IgnoreLists ==
    { << >>, << G_StarMd >>, << P_README >>, << G_StarPy, G_StarMd >>,
      << G_AnyAin >>, << G_NotMAin, G_ClassAin >>, << G_SrcStar, P_README >> }

RECURSIVE Repeat(_, _)
Repeat(ch, k) == IF k = 0 THEN << >> ELSE << ch >> \o Repeat(ch, k - 1)

\* A diff text of k characters: one added line.
DiffOfLen(k) == IF k = 0 THEN << >> ELSE << "+" >> \o Repeat("x", k - 1)

Entries == [path : Paths, diff : { DiffOfLen(k) : k \in 1..MaxDiffLen }]

\* The dicts of at most MaxFiles entries: no path twice.
FileChanges ==
    { fc \in UNION { [1..k -> Entries] : k \in 0..MaxFiles } :
        \A i \in 1..Len(fc) : \A j \in 1..Len(fc) : i # j => fc[i].path # fc[j].path }

InitReview ==
    /\ AnnIdle
    /\ OrchIdle
    /\ PostIdle
    /\ RestIdle
    /\ config \in [ignore_patterns : IgnoreLists, max_file_size : 0..MaxDiffLen]
    /\ file_changes \in FileChanges
    /\ filtered_changes = << >>
    /\ rpc = "call"

\* review_changes, from its entry to the end of the filter loop.
ReviewFilter ==
    /\ rpc = "call"
    /\ filtered_changes' = FilterChanges(file_changes, config)
    /\ rpc' = "filtered"
    /\ UNCHANGED << config, file_changes >>
    /\ UNCHANGED << annVars, orchVars, postVars, mainVars, ctorVars, envVars >>

NextReview == ReviewFilter

SpecReview == InitReview /\ [][NextReview]_vars

(***************************************************************************)
(* review_changes after the filter: the fast path, the prompt and the      *)
(* agent run                                                               *)
(***************************************************************************)

\* The whole of annotate_diff_with_line_numbers from line i of its loop on:
\* the lines appended so far, or the exception that leaves the loop.
RECURSIVE AnnotateFrom(_, _, _, _)
RECURSIVE AnnotateNext(_, _, _, _)
AnnotateFrom(ls, i, cur, acc) ==
    IF i > Len(ls) THEN [exc |-> "", out |-> acc]
    ELSE AnnotateNext(ls, i, acc, LineStep(ls[i], cur))

\* The rest of the loop once line i has been taken with outcome st.
AnnotateNext(ls, i, acc, st) ==
    IF st.exc # "" THEN [exc |-> st.exc, out |-> acc]
    ELSE AnnotateFrom(ls, i + 1, st.current_line, Append(acc, st.out))

\* return '\n'.join(result), when the loop has ended with r.
AnnotateResult(r) == [exc |-> r.exc, text |-> Join(r.out, "\n")]

\* annotate_diff_with_line_numbers(diff): the text returned, or the
\* exception raised.
annotate_diff_with_line_numbers(d) ==
    AnnotateResult(AnnotateFrom(Split(d, "\n"), 1, None, << >>))

\* A CodeReviewResponse.
CodeReviewResponse(summary, comments, approved) ==
    [summary |-> summary, comments |-> comments, approved |-> approved]

NoFilesSummary ==
    << "N", "o", " ", "f", "i", "l", "e", "s", " ", "t", "o", " ", "r",
       "e", "v", "i", "e", "w", " ", "(", "a", "l", "l", " ", "f", "i",
       "l", "e", "s", " ", "f", "i", "l", "t", "e", "r", "e", "d", " ",
       "o", "u", "t", ")", "." >>

L_PRTitle ==
    << "P", "R", " ", "T", "i", "t", "l", "e", ":", " " >>

L_PRDescription ==
    << "P", "R", " ", "D", "e", "s", "c", "r", "i", "p", "t", "i", "o",
       "n", ":", " " >>

L_CodeChanges ==
    << "#", "#", " ", "C", "o", "d", "e", " ", "C", "h", "a", "n", "g",
       "e", "s" >>

L_File ==
    << "\n", "#", "#", "#", " ", "F", "i", "l", "e", ":", " " >>

\* The grave accent, U+0060, as one character of a text.
GraveAccent == "U+0060"

L_Fence == << GraveAccent, GraveAccent, GraveAccent >>

L_FenceDiff == L_Fence \o << "d", "i", "f", "f" >>

\* if not filtered_changes
NothingToReview_Input == file_changes = << >>

NothingToReview == filtered_changes = << >>

\* The four parts one entry appends to prompt_parts.
FileParts_RawDiff(e) ==
    [exc |-> "",
     parts |-> << L_File \o e.path \o << "\n" >>, L_FenceDiff, e.diff,
                  L_Fence \o << "\n" >> >>]

\* The four parts of entry e, its annotated diff being a.
FilePartsOf(e, a) ==
    [exc |-> a.exc,
     parts |-> << L_File \o e.path \o << "\n" >>, L_FenceDiff, a.text,
                  L_Fence \o << "\n" >> >>]

FileParts(e) == FilePartsOf(e, annotate_diff_with_line_numbers(e.diff))

\* The loop over filtered_changes from entry i on.
RECURSIVE PartsFrom(_, _, _)
RECURSIVE PartsNext(_, _, _, _)
PartsFrom(changes, i, acc) ==
    IF i > Len(changes) THEN [exc |-> "", parts |-> acc]
    ELSE PartsNext(changes, i, acc, FileParts(changes[i]))

\* The rest of the loop once entry i has given f.
PartsNext(changes, i, acc, f) ==
    IF f.exc # "" THEN [exc |-> f.exc, parts |-> acc]
    ELSE PartsFrom(changes, i + 1, acc \o f.parts)

\* prompt_parts before the loop.
PromptHead(title, description) ==
    (IF title # << >> THEN << L_PRTitle \o title >> ELSE << >>)
        \o (IF description # << >>
            THEN << L_PRDescription \o description >> ELSE << >>)
        \o << << "\n" >> \o L_CodeChanges \o << "\n" >> >>

\* prompt = "\n".join(prompt_parts), when the loop has ended with r.
PromptOf(r) == [exc |-> r.exc, prompt |-> Join(r.parts, "\n")]

\* The prompt of review_changes, or the exception raised while building it.
BuildPrompt(changes, title, description) ==
    PromptOf(PartsFrom(changes, 1, PromptHead(title, description)))

\* ReviewComment values: one of each severity; a suggestion, none, and
\* the empty string.
Cm_Error ==
    [path |-> P_Main, line |-> 12, severity |-> << "e", "r", "r", "o", "r" >>,
     category |-> << "b", "u", "g" >>, message |-> << "m", "1" >>,
     suggestion |-> Some(<< "f", "i", "x" >>)]

Cm_Warning ==
    [path |-> P_SrcREADME, line |-> 3, severity |-> << "w", "a", "r", "n", "i", "n", "g" >>,
     category |-> << "s", "t", "y", "l", "e" >>, message |-> << "m", "2" >>,
     suggestion |-> None]

Cm_Info ==
    [path |-> P_README, line |-> 7, severity |-> << "i", "n", "f", "o" >>,
     category |-> << "d", "o", "c", "s" >>, message |-> << "m", "3" >>,
     suggestion |-> Some(<< >>)]

\* What the agent run can produce.
R_Clean == CodeReviewResponse(<< "o", "k" >>, << >>, TRUE)
R_Issues == CodeReviewResponse(<< "b", "a", "d" >>, << Cm_Error, Cm_Warning >>, FALSE)
ModelOutputs ==
    { R_Clean, R_Issues,
      CodeReviewResponse(<< "o", "k" >>, << Cm_Info >>, TRUE),
      CodeReviewResponse(<< "b", "a", "d" >>, << >>, FALSE) }

\* ReviewConfig.max_file_size when not configured.
DefaultMaxFileSize == 10000

\* Diffs of a file: added lines only, one hunk, and a hunk whose header
\* ends at its '+'.
D_Added == DiffOfLen(MaxDiffLen)
D_Hunk == Join(<< RenderHeader(8, 2, 9, 2), << "+", "a" >>, << " ", "a" >> >>, "\n")
D_BadHunk == Join(<< << "@", "@", " ", "-", "1", " ", "+" >>, << "+", "a" >> >>, "\n")

PromptPaths == { P_README, P_Main }
PromptEntries == [path : PromptPaths, diff : { D_Added, D_Hunk, D_BadHunk }]

PromptFileChanges ==
    { fc \in UNION { [1..k -> PromptEntries] : k \in 0..MaxFiles } :
        \A i \in 1..Len(fc) : \A j \in 1..Len(fc) : i # j => fc[i].path # fc[j].path }

PRTitles == { << >>, << "T" >> }
PRDescriptions == { << >>, << "D" >> }

InitPrompt ==
    /\ AnnIdle
    /\ PostIdle
    /\ RestIdle
    /\ config \in [ignore_patterns : { << >>, << G_StarMd >> },
                   max_file_size : { MaxDiffLen, DefaultMaxFileSize }]
    /\ file_changes \in PromptFileChanges
    /\ filtered_changes = << >>
    /\ rpc = "call"
    /\ pr_title \in PRTitles
    /\ pr_description \in PRDescriptions
    /\ agent_calls = << >>
    /\ model_output = None
    /\ review_result = None
    /\ rexc = ""

\* review_changes: nothing survived the filter.
ReviewFastPath ==
    /\ rpc = "filtered"
    /\ NothingToReview
    /\ review_result' = Some(CodeReviewResponse(NoFilesSummary, << >>, TRUE))
    /\ rpc' = "returned"
    /\ UNCHANGED << config, file_changes, filtered_changes >>
    /\ UNCHANGED << pr_title, pr_description, agent_calls, model_output, rexc >>
    /\ UNCHANGED << annVars, postVars, mainVars, ctorVars, envVars >>

\* The prompt was built and agent.run is awaited on it, or building it
\* raised.
SendPrompt(b) ==
    IF b.exc # ""
    THEN /\ rexc' = b.exc
         /\ rpc' = "raised"
         /\ UNCHANGED agent_calls
    ELSE /\ agent_calls' = Append(agent_calls, b.prompt)
         /\ rpc' = "awaiting"
         /\ UNCHANGED rexc

\* review_changes: from the prompt to the await of self.agent.run(prompt).
ReviewPrompt ==
    /\ rpc = "filtered"
    /\ ~NothingToReview
    /\ SendPrompt(BuildPrompt(filtered_changes, pr_title, pr_description))
    /\ UNCHANGED << config, file_changes, filtered_changes >>
    /\ UNCHANGED << pr_title, pr_description, model_output, review_result >>
    /\ UNCHANGED << annVars, postVars, mainVars, ctorVars, envVars >>

\* The agent run completes: return result.output.
ReviewModelReturns ==
    /\ rpc = "awaiting"
    /\ \E out \in ModelOutputs :
          /\ model_output' = Some(out)
          /\ review_result' = Some(out)
    /\ rpc' = "returned"
    /\ UNCHANGED << config, file_changes, filtered_changes >>
    /\ UNCHANGED << pr_title, pr_description, agent_calls, rexc >>
    /\ UNCHANGED << annVars, postVars, mainVars, ctorVars, envVars >>

\* The agent run fails: its exception leaves review_changes.
ReviewModelRaises ==
    /\ rpc = "awaiting"
    /\ rexc' = "ModelError"
    /\ rpc' = "raised"
    /\ UNCHANGED << config, file_changes, filtered_changes >>
    /\ UNCHANGED << pr_title, pr_description, agent_calls, model_output, review_result >>
    /\ UNCHANGED << annVars, postVars, mainVars, ctorVars, envVars >>

NextPrompt ==
    \/ ReviewFilter
    \/ ReviewFastPath
    \/ ReviewPrompt
    \/ ReviewModelReturns
    \/ ReviewModelRaises

SpecPrompt == InitPrompt /\ [][NextPrompt]_vars
(***************************************************************************)
(* GitHubReviewPoster.post_review                                          *)
(*                                                                         *)
(* A character outside ASCII is one element of a text, named by its code   *)
(* point.                                                                  *)
(***************************************************************************)

MaxComments == 2

E_CheckMark == << "U+2705" >>
E_WarningSign == << "U+26A0", "U+FE0F" >>
E_PoliceLight == << "U+1F6A8" >>
E_LightBulb == << "U+1F4A1" >>

LowerLetters ==
    << "a", "b", "c", "d", "e", "f", "g", "h", "i", "j", "k", "l", "m", "n", "o", "p", "q", "r", "s", "t", "u", "v", "w", "x", "y", "z" >>

UpperLetters ==
    << "A", "B", "C", "D", "E", "F", "G", "H", "I", "J", "K", "L", "M", "N", "O", "P", "Q", "R", "S", "T", "U", "V", "W", "X", "Y", "Z" >>

\* str.upper() on ASCII text.
UpperChar(ch) ==
    IF \E k \in 1..26 : LowerLetters[k] = ch
    THEN UpperLetters[CHOOSE k \in 1..26 : LowerLetters[k] = ch]
    ELSE ch

Upper(text) == [k \in 1..Len(text) |-> UpperChar(text[k])]

\* approval_status
ApprovalStatus(approved) ==
    IF approved THEN E_CheckMark \o << " ", "*", "*", "A", "P", "P", "R", "O", "V", "E", "D", "*", "*" >>
    ELSE E_WarningSign \o << " ", "*", "*", "C", "H", "A", "N", "G", "E", "S", " ", "R", "E", "Q", "U", "E", "S", "T", "E", "D", "*", "*" >>

\* severity_emoji.get(comment.severity, "")
SeverityEmoji(severity) ==
    IF severity = << "e", "r", "r", "o", "r" >> THEN E_PoliceLight
    ELSE IF severity = << "w", "a", "r", "n", "i", "n", "g" >> THEN E_WarningSign
    ELSE IF severity = << "i", "n", "f", "o" >> THEN E_LightBulb
    ELSE << >>

\* if comment.suggestion: neither None nor the empty string.
Truthy(opt) == opt # None /\ opt[1] # << >>

L_SuggestedFix == << "*", "*", "S", "u", "g", "g", "e", "s", "t", "e", "d", " ", "f", "i", "x", ":", "*", "*" >>

\* The fenced block "**Suggested fix:**\n```\n{suggestion}\n```".
SuggestionBlock(text) ==
    L_SuggestedFix \o << "\n" >> \o L_Fence \o << "\n" >> \o text \o << "\n" >> \o L_Fence

\* "**{comment.category.upper()}** ({comment.severity})"
CategoryLine(c) ==
    << "*", "*" >> \o Upper(c.category) \o << "*", "*", " ", "(" >> \o c.severity \o << ")" >>

\* The body of the review: title, approval status, summary.
ReviewBody(title, r) ==
    << "#", "#", " " >> \o title \o << "\n", "\n" >> \o ApprovalStatus(r.approved)
        \o << "\n", "\n" >> \o r.summary

\* The body of one inline comment.
InlineBody_AlwaysSuggestion(c) ==
    SeverityEmoji(c.severity) \o << " " >> \o CategoryLine(c)
        \o << "\n", "\n" >> \o c.message
        \o (IF c.suggestion # None
            THEN << "\n", "\n" >> \o SuggestionBlock(c.suggestion[1]) ELSE << >>)

InlineBody(c) ==
    SeverityEmoji(c.severity) \o << " " >> \o CategoryLine(c)
        \o << "\n", "\n" >> \o c.message
        \o (IF Truthy(c.suggestion)
            THEN << "\n", "\n" >> \o SuggestionBlock(c.suggestion[1]) ELSE << >>)

\* review_comments: one dict per comment, appended in order.
ReviewComments(comments) ==
    [k \in 1..Len(comments) |->
        [path |-> comments[k].path, line |-> comments[k].line,
         side |-> "RIGHT", body |-> InlineBody(comments[k])]]

\* What the fallback appends to comment_body for one comment.
FlatComment_NoSuggestion(c) ==
    << "\n", "#", "#", "#", " " >> \o SeverityEmoji(c.severity) \o << " " >> \o c.path \o << ":" >>
        \o IntToStr(c.line) \o << "\n" >>
        \o CategoryLine(c) \o << "\n", "\n" >>
        \o c.message \o << "\n" >>

FlatComment(c) ==
    << "\n", "#", "#", "#", " " >> \o SeverityEmoji(c.severity) \o << " " >> \o c.path \o << ":" >>
        \o IntToStr(c.line) \o << "\n" >>
        \o CategoryLine(c) \o << "\n", "\n" >>
        \o c.message \o << "\n" >>
        \o (IF Truthy(c.suggestion)
            THEN << "\n" >> \o SuggestionBlock(c.suggestion[1]) \o << "\n" >>
            ELSE << >>)

RECURSIVE FlatComments(_)
FlatComments(comments) ==
    IF comments = << >> THEN << >>
    ELSE FlatComment(Head(comments)) \o FlatComments(Tail(comments))

\* comment_body of the fallback.
IssueCommentBody(title, r) ==
    << "#", "#", " " >> \o title \o << "\n", "\n" >> \o r.summary \o << "\n", "\n" >>
        \o FlatComments(r.comments)

\* One call on self.pr and whether it succeeded; comments is None when the
\* call has no comments argument.
CreateReview_Verdict(body, comments, ok) ==
    [api |-> "create_review", body |-> body,
     event |-> IF review.approved THEN "APPROVE" ELSE "REQUEST_CHANGES",
     comments |-> comments, ok |-> ok]

CreateReview(body, comments, ok) ==
    [api |-> "create_review", body |-> body, event |-> "COMMENT",
     comments |-> comments, ok |-> ok]

CreateIssueComment(body, ok) ==
    [api |-> "create_issue_comment", body |-> body, event |-> "",
     comments |-> None, ok |-> ok]

\* The reviews and titles InitPost enumerates.
Comments == { Cm_Error, Cm_Warning, Cm_Info }
CommentLists == UNION { [1..k -> Comments] : k \in 0..MaxComments }
Summaries == { << "o", "k" >>, << "b", "a", "d" >> }
Reviews == [summary : Summaries, comments : CommentLists, approved : BOOLEAN]
ReviewTitles == { << "A", "I", " ", "C", "o", "d", "e", " ", "R", "e", "v", "i", "e", "w" >>, << "R" >> }

InitPost ==
    /\ AnnIdle
    /\ RevIdle
    /\ OrchIdle
    /\ RestIdle
    /\ review \in Reviews
    /\ review_title \in ReviewTitles
    /\ calls = << >>
    /\ ppc = "call"

\* post_review with no comments: one general review; a failure of the call
\* leaves post_review.
PostGeneral_Fallback ==
    /\ ppc = "call"
    /\ review.comments = << >>
    /\ \E ok \in BOOLEAN :
          /\ calls' = Append(calls, CreateReview(ReviewBody(review_title, review), None, ok))
          /\ ppc' = IF ok THEN "returned" ELSE "except"
    /\ UNCHANGED << review, review_title >>
    /\ UNCHANGED << annVars, revVars, orchVars, mainVars, ctorVars, envVars >>

PostGeneral ==
    /\ ppc = "call"
    /\ review.comments = << >>
    /\ \E ok \in BOOLEAN :
          /\ calls' = Append(calls, CreateReview(ReviewBody(review_title, review), None, ok))
          /\ ppc' = IF ok THEN "returned" ELSE "raised"
    /\ UNCHANGED << review, review_title >>
    /\ UNCHANGED << annVars, revVars, orchVars, mainVars, ctorVars, envVars >>

\* post_review with comments: the inline comments are built and the review
\* is posted inside the try.
PostInline_AlwaysFallsBack ==
    /\ ppc = "call"
    /\ review.comments # << >>
    /\ LET review_comments == ReviewComments(review.comments)
           body == ReviewBody(review_title, review)
       IN  \E ok \in BOOLEAN :
              /\ calls' = Append(calls,
                                 IF review_comments # << >>
                                 THEN CreateReview(body, Some(review_comments), ok)
                                 ELSE CreateReview(body, None, ok))
              /\ ppc' = "except"
    /\ UNCHANGED << review, review_title >>
    /\ UNCHANGED << annVars, revVars, orchVars, mainVars, ctorVars, envVars >>

PostInline ==
    /\ ppc = "call"
    /\ review.comments # << >>
    /\ LET review_comments == ReviewComments(review.comments)
           body == ReviewBody(review_title, review)
       IN  \E ok \in BOOLEAN :
              /\ calls' = Append(calls,
                                 IF review_comments # << >>
                                 THEN CreateReview(body, Some(review_comments), ok)
                                 ELSE CreateReview(body, None, ok))
              /\ ppc' = IF ok THEN "returned" ELSE "except"
    /\ UNCHANGED << review, review_title >>
    /\ UNCHANGED << annVars, revVars, orchVars, mainVars, ctorVars, envVars >>

\* The except branch, with a review without inline comments tried before
\* the issue comment.
PostIssueComment_BodyOnlyFirst ==
    /\ ppc = "except"
    /\ \E ok \in BOOLEAN :
          IF \A k \in 1..Len(calls) : calls[k].comments # None
          THEN /\ calls' = Append(calls, CreateReview(ReviewBody(review_title, review), None, ok))
               /\ ppc' = IF ok THEN "returned" ELSE "except"
          ELSE /\ calls' = Append(calls, CreateIssueComment(IssueCommentBody(review_title, review), ok))
               /\ ppc' = IF ok THEN "returned" ELSE "raised"
    /\ UNCHANGED << review, review_title >>
    /\ UNCHANGED << annVars, revVars, orchVars, mainVars, ctorVars, envVars >>

\* The except branch: the issue comment; a failure of the call leaves
\* post_review.
PostIssueComment ==
    /\ ppc = "except"
    /\ \E ok \in BOOLEAN :
          /\ calls' = Append(calls, CreateIssueComment(IssueCommentBody(review_title, review), ok))
          /\ ppc' = IF ok THEN "returned" ELSE "raised"
    /\ UNCHANGED << review, review_title >>
    /\ UNCHANGED << annVars, revVars, orchVars, mainVars, ctorVars, envVars >>

NextPost ==
    \/ PostGeneral
    \/ PostInline
    \/ PostIssueComment

SpecPost == InitPost /\ [][NextPost]_vars
(***************************************************************************)
(* The commands review_pr and review_pr_from_env                           *)
(***************************************************************************)

\* get_pr_files: the files with a patch, as (path, diff) in the order given.
RECURSIVE FileDiffs(_)
FileDiffs(files) ==
    IF files = << >> THEN << >>
    ELSE (IF Truthy(Head(files).patch)
          THEN << [path |-> Head(files).filename, diff |-> Head(files).patch[1]] >>
          ELSE << >>)
         \o FileDiffs(Tail(files))

\* gh_poster.pr.body or ""
BodyOrEmpty(body) == IF Truthy(body) THEN body[1] ELSE << >>

\* The pull requests InitMain enumerates: a file of GitHub has a patch or,
\* being binary, none.
PRFiles ==
    { fs \in UNION { [1..k -> [filename : PromptPaths,
                            patch : { None, Some(D_Added), Some(D_Hunk), Some(D_BadHunk) }]] : k \in 0..MaxFiles } :
        \A i \in 1..Len(fs) : \A j \in 1..Len(fs) :
            i # j => fs[i].filename # fs[j].filename }

InitMain ==
    /\ AnnIdle
    /\ OrchIdle
    /\ CtorIdle
    /\ EnvIdle
    /\ config \in [ignore_patterns : { << >>, << G_StarMd >> },
                   max_file_size : { MaxDiffLen, DefaultMaxFileSize }]
    /\ file_changes = << >>
    /\ filtered_changes = << >>
    /\ rpc = "idle"
    /\ review = [summary |-> << >>, comments |-> << >>, approved |-> TRUE]
    /\ review_title = << "A", "I", " ", "C", "o", "d", "e", " ", "R", "e", "v", "i", "e", "w" >>
    /\ calls = << >>
    /\ ppc = "idle"
    /\ command \in { "review_pr", "review_pr_from_env" }
    /\ pr \in [title : { << "T" >> }, body : { None, Some(<< "D" >>) }, files : PRFiles]
    /\ mpc = "start"
    /\ ops = << >>
    /\ exit_code = None

\* except Exception: sys.exit(1)
ExceptExit ==
    /\ exit_code' = Some(1)
    /\ mpc' = "exited"

\* The configuration, the CodeReviewer and the GitHubReviewPoster are
\* constructed (from the arguments or from the environment), or one of the
\* constructors raises.
MainSetup ==
    /\ mpc = "start"
    /\ \E ok \in BOOLEAN :
          IF ok THEN mpc' = "setup" /\ UNCHANGED exit_code
          ELSE ExceptExit
    /\ UNCHANGED << command, pr, ops >>
    /\ UNCHANGED << annVars, revVars, orchVars, postVars, ctorVars, envVars >>

MainFetch_GoesOn ==
    /\ mpc = "setup"
    /\ \E ok \in BOOLEAN :
          /\ ops' = Append(ops, [op |-> "get_pr_files", ok |-> ok])
          /\ file_changes' = IF ok THEN FileDiffs(pr.files) ELSE << >>
          /\ pr_title' = pr.title
          /\ pr_description' = BodyOrEmpty(pr.body)
          /\ mpc' = "fetched"
          /\ UNCHANGED exit_code
    /\ UNCHANGED << command, pr >>
    /\ UNCHANGED << config, filtered_changes, rpc >>
    /\ UNCHANGED << agent_calls, model_output, review_result, rexc >>
    /\ UNCHANGED << annVars, postVars, ctorVars, envVars >>

\* file_diffs = gh_poster.get_pr_files(), then the title and the body of
\* the pull request are read.
MainFetch ==
    /\ mpc = "setup"
    /\ \E ok \in BOOLEAN :
          /\ ops' = Append(ops, [op |-> "get_pr_files", ok |-> ok])
          /\ IF ok
             THEN /\ file_changes' = FileDiffs(pr.files)
                  /\ pr_title' = pr.title
                  /\ pr_description' = BodyOrEmpty(pr.body)
                  /\ mpc' = "fetched"
                  /\ UNCHANGED exit_code
             ELSE /\ ExceptExit
                  /\ UNCHANGED << file_changes, pr_title, pr_description >>
    /\ UNCHANGED << command, pr >>
    /\ UNCHANGED << config, filtered_changes, rpc >>
    /\ UNCHANGED << agent_calls, model_output, review_result, rexc >>
    /\ UNCHANGED << annVars, postVars, ctorVars, envVars >>

\* await reviewer.review_changes(file_diffs, pr_title, pr_description): the
\* call.
MainReview ==
    /\ mpc = "fetched"
    /\ ops' = Append(ops, [op |-> "review_changes", ok |-> TRUE])
    /\ rpc' = "call"
    /\ mpc' = "reviewing"
    /\ UNCHANGED << command, pr, exit_code >>
    /\ UNCHANGED << config, file_changes, filtered_changes >>
    /\ UNCHANGED << annVars, orchVars, postVars, ctorVars, envVars >>

\* The run is cancelled while the agent run is awaited: CancelledError
\* leaves review_changes.
ReviewModelAborted ==
    /\ rpc = "awaiting"
    /\ rexc' = "CancelledError"
    /\ rpc' = "raised"
    /\ UNCHANGED << config, file_changes, filtered_changes >>
    /\ UNCHANGED << pr_title, pr_description, agent_calls, model_output, review_result >>
    /\ UNCHANGED << annVars, postVars, mainVars, ctorVars, envVars >>

\* The exit status of a process ended by an exception that is not an
\* Exception: that of the uncaught traceback or that of the interrupt.
KilledExit ==
    /\ exit_code' \in { Some(1), Some(130) }
    /\ mpc' = "exited"

\* An exception left review_changes: except Exception takes it, unless it
\* is the cancellation.
MainReviewRaised ==
    /\ mpc = "reviewing"
    /\ rpc = "raised"
    /\ IF rexc = "CancelledError" THEN KilledExit ELSE ExceptExit
    /\ UNCHANGED << command, pr, ops >>
    /\ UNCHANGED << annVars, revVars, orchVars, postVars, ctorVars, envVars >>

MainPost_SkipsEmpty ==
    /\ mpc = "reviewing"
    /\ rpc = "returned"
    /\ IF filtered_changes = << >>
       THEN /\ exit_code' = Some(0)
            /\ mpc' = "exited"
            /\ UNCHANGED << ops, review, ppc >>
       ELSE /\ ops' = Append(ops, [op |-> "post_review", ok |-> TRUE])
            /\ review' = review_result[1]
            /\ ppc' = "call"
            /\ mpc' = "posting"
            /\ UNCHANGED exit_code
    /\ UNCHANGED << command, pr >>
    /\ UNCHANGED << review_title, calls >>
    /\ UNCHANGED << annVars, revVars, orchVars, ctorVars, envVars >>

MainPost_Regardless ==
    /\ mpc = "reviewing"
    /\ rpc \in { "returned", "raised" }
    /\ ops' = Append(ops, [op |-> "post_review", ok |-> TRUE])
    /\ review' = IF review_result = None
                 THEN CodeReviewResponse(NoFilesSummary, << >>, TRUE)
                 ELSE review_result[1]
    /\ ppc' = "call"
    /\ mpc' = "posting"
    /\ UNCHANGED << command, pr, exit_code >>
    /\ UNCHANGED << review_title, calls >>
    /\ UNCHANGED << annVars, revVars, orchVars, ctorVars, envVars >>

\* review_changes returned: gh_poster.post_review(review_result), the call.
MainPost ==
    /\ mpc = "reviewing"
    /\ rpc = "returned"
    /\ ops' = Append(ops, [op |-> "post_review", ok |-> TRUE])
    /\ review' = review_result[1]
    /\ ppc' = "call"
    /\ mpc' = "posting"
    /\ UNCHANGED << command, pr, exit_code >>
    /\ UNCHANGED << review_title, calls >>
    /\ UNCHANGED << annVars, revVars, orchVars, ctorVars, envVars >>

\* An exception left post_review.
MainPostRaised ==
    /\ mpc = "posting"
    /\ ppc = "raised"
    /\ ExceptExit
    /\ UNCHANGED << command, pr, ops >>
    /\ UNCHANGED << annVars, revVars, orchVars, postVars, ctorVars, envVars >>

MainExit_ByComments ==
    /\ mpc = "posting"
    /\ ppc = "returned"
    /\ exit_code' = Some(IF review_result[1].comments = << >> THEN 0 ELSE 1)
    /\ mpc' = "exited"
    /\ UNCHANGED << command, pr, ops >>
    /\ UNCHANGED << annVars, revVars, orchVars, postVars, ctorVars, envVars >>

\* post_review returned: the summary is printed and
\* sys.exit(0 if review_result.approved else 1).
MainExit ==
    /\ mpc = "posting"
    /\ ppc = "returned"
    /\ exit_code' = Some(IF review_result[1].approved THEN 0 ELSE 1)
    /\ mpc' = "exited"
    /\ UNCHANGED << command, pr, ops >>
    /\ UNCHANGED << annVars, revVars, orchVars, postVars, ctorVars, envVars >>

NextMain ==
    \/ MainSetup
    \/ MainFetch
    \/ MainReview
    \/ ReviewFilter
    \/ ReviewFastPath
    \/ ReviewPrompt
    \/ ReviewModelReturns
    \/ ReviewModelRaises
    \/ ReviewModelAborted
    \/ MainReviewRaised
    \/ MainPost
    \/ PostGeneral
    \/ PostInline
    \/ PostIssueComment
    \/ MainPostRaised
    \/ MainExit

SpecMain == InitMain /\ [][NextMain]_vars
(***************************************************************************)
(* CodeReviewer.__init__ and _create_model                                 *)
(***************************************************************************)

\* ModelProvider
PV ==
    [ openai |-> << "o", "p", "e", "n", "a", "i" >>,
      anthropic |-> << "a", "n", "t", "h", "r", "o", "p", "i", "c" >>,
      gemini |-> << "g", "e", "m", "i", "n", "i" >>,
      groq |-> << "g", "r", "o", "q" >>,
      mistral |-> << "m", "i", "s", "t", "r", "a", "l" >>,
      cohere |-> << "c", "o", "h", "e", "r", "e" >>,
      bedrock |-> << "b", "e", "d", "r", "o", "c", "k" >>,
      vertexai |-> << "v", "e", "r", "t", "e", "x", "a", "i" >>,
      ollama |-> << "o", "l", "l", "a", "m", "a" >>,
      huggingface |-> << "h", "u", "g", "g", "i", "n", "g", "f", "a", "c", "e" >> ]

ModelProviders == { PV[n] : n \in DOMAIN PV }

\* The variables of os.environ _create_model writes.
EnvNames ==
    { "OPENAI_API_KEY", "ANTHROPIC_API_KEY", "GEMINI_API_KEY", "GROQ_API_KEY",
      "MISTRAL_API_KEY", "HF_TOKEN", "OPENAI_BASE_URL", "OLLAMA_BASE_URL" }

\* The variable the API key of a provider is written to, "" when
\* _create_model has no branch for the provider.
KeyVar(provider) ==
    IF provider = PV.openai THEN "OPENAI_API_KEY"
    ELSE IF provider = PV.anthropic THEN "ANTHROPIC_API_KEY"
    ELSE IF provider = PV.gemini THEN "GEMINI_API_KEY"
    ELSE IF provider = PV.groq THEN "GROQ_API_KEY"
    ELSE IF provider = PV.mistral THEN "MISTRAL_API_KEY"
    ELSE IF provider = PV.huggingface THEN "HF_TOKEN"
    ELSE ""

\* The variable the base URL of a provider is written to.
UrlVar(provider) ==
    IF provider = PV.openai THEN "OPENAI_BASE_URL"
    ELSE IF provider = PV.ollama THEN "OLLAMA_BASE_URL"
    ELSE ""

\* os.environ[name] = value, when there is a value and a name.
SetEnv(env, name, value) ==
    IF Truthy(value) /\ name # ""
    THEN [env EXCEPT ![name] = Some(value[1])]
    ELSE env

\* os.environ after _create_model.
EnvAfter(cfg, env) ==
    SetEnv(SetEnv(env, KeyVar(cfg.model_provider), cfg.api_key),
           UrlVar(cfg.model_provider), cfg.base_url)

\* The string _create_model returns.
ModelId(cfg) ==
    IF cfg.model_provider = PV.gemini THEN cfg.model_name
    ELSE IF cfg.model_provider = PV.huggingface THEN PV.huggingface \o << ":" >> \o cfg.model_name
    ELSE IF cfg.model_provider = PV.ollama THEN PV.ollama \o << ":" >> \o cfg.model_name
    ELSE IF cfg.model_provider = PV.openai THEN PV.openai \o << ":" >> \o cfg.model_name
    ELSE IF cfg.model_provider = PV.anthropic THEN PV.anthropic \o << ":" >> \o cfg.model_name
    ELSE IF cfg.model_provider = PV.groq THEN PV.groq \o << ":" >> \o cfg.model_name
    ELSE IF cfg.model_provider = PV.mistral THEN PV.mistral \o << ":" >> \o cfg.model_name
    ELSE cfg.model_provider \o << ":" >> \o cfg.model_name

\* The configurations InitCtor enumerates.
ModelConfigs ==
    [model_provider : ModelProviders,
     model_name : { << "g", "p", "t", "-", "4" >> },
     api_key : { None, Some(<< "k", "A" >>), Some(<< "k", "B" >>) },
     base_url : { None, Some(<< "u", "A" >>), Some(<< "u", "B" >>) }]

NoEnv == [n \in EnvNames |-> None]

\* The environment the process starts with: nothing set, or the key the
\* workflow exports.
StartEnvs == { NoEnv, [NoEnv EXCEPT !["OPENAI_API_KEY"] = Some(<< "k", "E" >>)] }

\* environ is os.environ of the process; environ_alone is, beside the
\* environment the process started with, os.environ of a process started
\* in the same environment that constructs the latest reviewer only.
InitCtor ==
    /\ AnnIdle
    /\ RevIdle
    /\ OrchIdle
    /\ PostIdle
    /\ MainIdle
    /\ EnvIdle
    \* run A and run B, which follows it in the same process
    /\ cfgs \in ModelConfigs \X ModelConfigs
    /\ environ \in StartEnvs
    /\ environ_alone = [start |-> environ, after |-> environ]
    /\ model = None
    /\ cpc = 0

\* reviewer = CodeReviewer(config) of the next run.
Construct ==
    /\ cpc < Len(cfgs)
    /\ environ' = EnvAfter(cfgs[cpc + 1], environ)
    /\ environ_alone' = [environ_alone EXCEPT
                            !.after = EnvAfter(cfgs[cpc + 1], environ_alone.start)]
    /\ model' = Some(ModelId(cfgs[cpc + 1]))
    /\ cpc' = cpc + 1
    /\ UNCHANGED cfgs
    /\ UNCHANGED << annVars, revVars, orchVars, postVars, mainVars, envVars >>

SpecCtor == InitCtor /\ [][Construct]_vars

(***************************************************************************)
(* GitHubReviewPoster.from_env                                             *)
(***************************************************************************)

\* sub in text
IsSubstring(sub, text) ==
    \E i \in 1..(Len(text) - Len(sub) + 1) : SubSeq(text, i, i + Len(sub) - 1) = sub

\* os.getenv(name, "") of a variable that is set or not.
GetOr(value, default) == IF value = None THEN default ELSE value[1]

\* not pr_number
NoNumber(n) == n = None \/ n = Some(0)

E_InvalidLiteral == "ValueError: invalid literal for int() with base 10"
E_NoPRNumber == "ValueError: Could not determine PR number from environment"
E_Github == "GithubException"

\* event.get("pull_request", {}).get("number") of the payload read.
EventNumber(event) ==
    IF event.pull_request = None THEN None
    ELSE event.pull_request[1].number

\* The environments InitEnv enumerates: GITHUB_REF of a pull request
\* event, of branches and of a tag, or none; the payload path set or not;
\* the payload file missing, of an event without a pull request, or of a
\* pull request.
GitHubRefs ==
    { None,
      Some(<< "r", "e", "f", "s", "/", "p", "u", "l", "l", "/", "4", "5", "6", "/", "m", "e", "r", "g", "e" >>),
      Some(<< "r", "e", "f", "s", "/", "h", "e", "a", "d", "s", "/", "m", "a", "i", "n" >>),
      Some(<< "r", "e", "f", "s", "/", "t", "a", "g", "s", "/", "v", "1" >>),
      Some(<< "r", "e", "f", "s", "/", "h", "e", "a", "d", "s", "/", "p", "u", "l", "l", "-", "f", "i", "x" >>),
      Some(<< "r", "e", "f", "s", "/", "h", "e", "a", "d", "s", "/", "f", "e", "a", "t", "u", "r", "e", "/", "p", "u", "l", "l" >>),
      Some(<< "r", "e", "f", "s", "/", "h", "e", "a", "d", "s", "/", "7", "/", "p", "u", "l", "l" >>),
      Some(<< "p", "u", "l", "l" >>) }

InitEnv ==
    /\ AnnIdle
    /\ RevIdle
    /\ OrchIdle
    /\ PostIdle
    /\ MainIdle
    /\ CtorIdle
    /\ getenv \in
          [GITHUB_REF : GitHubRefs,
           GITHUB_EVENT_PATH : { None, Some(<< >>), Some(<< "/", "e", "v", "e", "n", "t", ".", "j", "s", "o", "n" >>) },
           event_file : { None,
                          Some([pull_request |-> None]),
                          Some([pull_request |-> Some([number |-> None])]),
                          Some([pull_request |-> Some([number |-> Some(789)])]) }]
    /\ pr_number = None
    /\ eexc = ""
    /\ epc = "call"

\* The number int(parts[2]) gives, or the exception.
ParseRef(parts) ==
    IF Len(parts) >= 3
    THEN IF IsIntLiteral(parts[3])
         THEN [n |-> Some(IntVal(parts[3])), exc |-> ""]
         ELSE [n |-> None, exc |-> E_InvalidLiteral]
    ELSE [n |-> None, exc |-> ""]

\* if "pull" in github_ref: parts = github_ref.split("/") ...
RefStep(ref) ==
    IF IsSubstring(<< "p", "u", "l", "l" >>, ref)
    THEN ParseRef(Split(ref, "/"))
    ELSE [n |-> None, exc |-> ""]

\* The number is taken from GITHUB_REF, or int raises.
EnvRef ==
    /\ epc = "call"
    /\ LET r == RefStep(GetOr(getenv.GITHUB_REF, << >>)) IN
       /\ pr_number' = r.n
       /\ eexc' = r.exc
       /\ epc' = IF r.exc # "" THEN "raised" ELSE "ref"
    /\ UNCHANGED getenv
    /\ UNCHANGED << annVars, revVars, orchVars, postVars, mainVars, ctorVars >>

\* Fallback to the event payload: read when there is no number yet, the
\* path is set and the file exists.
EnvEvent ==
    /\ epc = "ref"
    /\ IF /\ NoNumber(pr_number)
          /\ GetOr(getenv.GITHUB_EVENT_PATH, << >>) # << >>
          /\ getenv.event_file # None
       THEN pr_number' = EventNumber(getenv.event_file[1])
       ELSE UNCHANGED pr_number
    /\ epc' = "event"
    /\ UNCHANGED << getenv, eexc >>
    /\ UNCHANGED << annVars, revVars, orchVars, postVars, mainVars, ctorVars >>

\* Without a number ValueError is raised; with one the poster is
\* constructed, which asks GitHub for the repository and the pull request.
EnvFinish ==
    /\ epc = "event"
    /\ IF NoNumber(pr_number)
       THEN eexc' = E_NoPRNumber /\ epc' = "raised"
       ELSE \E ok \in BOOLEAN :
               IF ok THEN epc' = "returned" /\ UNCHANGED eexc
               ELSE eexc' = E_Github /\ epc' = "raised"
    /\ UNCHANGED << getenv, pr_number >>
    /\ UNCHANGED << annVars, revVars, orchVars, postVars, mainVars, ctorVars >>

NextEnv ==
    \/ EnvRef
    \/ EnvEvent
    \/ EnvFinish

SpecEnv == InitEnv /\ [][NextEnv]_vars

(***************************************************************************)
(* Properties of annotate_diff_with_line_numbers                           *)
(***************************************************************************)

\* The lines taken by the loop so far.
Processed == 1..Len(result)

\* current_line after the loop has taken line i.
After(i) == IF i < Len(trace) THEN trace[i + 1] ELSE current_line

\* An addition or a context line.
CountsLine(line) == StartsWith(line, << "+" >>) \/ StartsWith(line, << " " >>)

\* Line i was taken while the counter was defined and is an addition or context.
TaggedAt(i) == trace[i] # None /\ CountsLine(lines[i])

\* No header and no tagged line strictly between i and j.
Adjacent(i, j) ==
    \A x \in (i + 1)..(j - 1) : ~IsHeader(lines[x]) /\ ~TaggedAt(x)

BodyKinds == { "ctx", "add", "del", "blank", "marker" }

CountKinds(s, kinds) == Cardinality({ i \in 2..Len(s) : s[i].kind \in kinds })

\* One well-formed header followed by a body with the line counts it declares.
ValidSingleHunk(s) ==
    /\ Len(s) >= 1
    /\ s[1].kind = "hunk"
    /\ \A i \in 2..Len(s) : s[i].kind \in BodyKinds
    /\ CountKinds(s, { "ctx", "add" }) = s[1].n
    /\ CountKinds(s, { "ctx", "del" }) = s[1].m

\* C1 (line-count invariant): for a valid single-hunk diff with header
\* "@@ -a,m +c,n @@" the call returns, exactly n lines of the returned text
\* are tagged, the first tagged line carries c and the last carries c + n - 1.
C1_LineCount ==
    ValidSingleHunk(src) =>
        /\ pc # "raised"
        /\ pc = "done" =>
            LET out == Split(ret, "\n")
                c == src[1].c
                n == src[1].n
                tagged == { i \in 1..Len(out) : out[i] # src[i].text }
                first == CHOOSE i \in tagged : \A j \in tagged : i <= j
                last == CHOOSE i \in tagged : \A j \in tagged : j <= i
            IN  /\ Len(out) = Len(src)
                /\ Cardinality(tagged) = n
                /\ \A i \in tagged :
                      \E k \in c..(c + n - 1) : out[i] = Tagged(k, src[i].text)
                /\ n > 0 =>
                      /\ out[first] = Tagged(c, src[first].text)
                      /\ out[last] = Tagged(c + n - 1, src[last].text)

\* A valid hunk with a deletion between its two counted lines was annotated,
\* and the tags cross from one digit to two.
C1_Witness ==
    /\ pc = "done"
    /\ ValidSingleHunk(src)
    /\ src[1].c = 9
    /\ src[1].n = 2
    /\ \E i \in 3..(Len(src) - 1) : src[i].kind = "del"

\* C2 (tagging step): a line starting with '+' or ' ' taken while the counter
\* is k is emitted as "[Line k] " followed by the line and the counter becomes
\* k + 1; successive tagged lines of one hunk carry numbers that differ by 1.
C2_TaggingStep ==
    /\ \A i \in Processed :
          TaggedAt(i) =>
              /\ result[i] = Tagged(trace[i][1], lines[i])
              /\ After(i) = Some(trace[i][1] + 1)
    /\ \A i \in Processed : \A j \in Processed :
          (i < j /\ TaggedAt(i) /\ TaggedAt(j) /\ ~IsHeader(lines[j]) /\ Adjacent(i, j)) =>
              result[j] = Tagged(trace[i][1] + 1, lines[j])

\* Two tagged lines with a deletion between them were appended.
C2_Witness ==
    \E i \in Processed : \E j \in Processed :
        /\ i + 1 < j
        /\ TaggedAt(i)
        /\ TaggedAt(j)
        /\ Adjacent(i, j)
        /\ StartsWith(lines[i + 1], << "-" >>)
        /\ result[j] = Tagged(trace[i][1] + 1, lines[j])

\* C3 (deletion neutrality): a line that is no header, no addition and no
\* context line (a deletion, a blank line, a "\ No newline" marker) is emitted
\* unchanged and leaves the counter as it was.
C3_DeletionNeutral ==
    \A i \in Processed :
        (~IsHeader(lines[i]) /\ ~CountsLine(lines[i])) =>
            /\ result[i] = lines[i]
            /\ After(i) = trace[i]

\* Inside a hunk a deletion and a marker were taken.
C3_Witness ==
    /\ \E i \in Processed :
          trace[i] # None /\ i <= Len(src) /\ src[i].kind = "del"
    /\ \E i \in Processed :
          trace[i] # None /\ i <= Len(src) /\ src[i].kind \in { "marker", "blank" }

\* C4 (multi-hunk independence): a header "@@ -a,b +c,d @@" sets the counter
\* to c whatever it was before, and the first tagged line after it carries c.
C4_HeaderResets ==
    \A i \in Processed :
        (i <= Len(src) /\ src[i].kind = "hunk") =>
            /\ result[i] = lines[i]
            /\ After(i) = Some(src[i].c)
            /\ \A j \in Processed :
                  (i < j /\ TaggedAt(j) /\ ~IsHeader(lines[j]) /\ Adjacent(i, j)) =>
                      result[j] = Tagged(src[i].c, lines[j])

\* A second header was taken after the first hunk had counted, and a line
\* after it was tagged with its start.
C4_Witness ==
    \E i \in Processed : \E j \in Processed :
        /\ 1 < i
        /\ i < j
        /\ src[i].kind = "hunk"
        /\ trace[i] # None
        /\ trace[i] # Some(src[1].c)
        /\ trace[i] # Some(src[i].c)
        /\ result[j] = Tagged(src[i].c, lines[j])

\* C5 (no failure mode): the call never raises, whatever the text.
C5_NeverRaises == pc # "raised"

\* Headers from which no new-file start integer can be read.
BadKinds == { "noplus", "plusend", "pluscomma", "nonnum" }

\* C6 (suspension on parse failure): after a header with no readable start
\* the counter is undefined and no line is tagged until the next header,
\* stated for the calls that do not raise.
C6_SuspendsOnBadHeader ==
    pc # "raised" =>
        \A i \in Processed :
            (i <= Len(src) /\ src[i].kind \in BadKinds) =>
                /\ After(i) = None
                /\ \A j \in Processed :
                      (i < j /\ \A x \in (i + 1)..j : ~IsHeader(lines[x])) =>
                          result[j] = lines[j]

\* No header among the first i lines.
NoHeaderUpTo(i) == \A x \in 1..i : ~IsHeader(lines[x])

\* C7 (no header): every line before the first header is emitted unchanged,
\* and a text without any header is returned unchanged.
C7_NoHeaderUnchanged ==
    /\ \A i \in Processed : NoHeaderUpTo(i) => result[i] = lines[i]
    /\ (pc # "start" /\ NoHeaderUpTo(Len(lines))) => pc # "raised"
    /\ (pc = "done" /\ NoHeaderUpTo(Len(lines))) => ret = diff

\* A text without header that holds an addition and a context line came back.
C7_Witness ==
    /\ pc = "done"
    /\ NoHeaderUpTo(Len(lines))
    /\ \E i \in 1..Len(lines) : StartsWith(lines[i], << "+" >>)
    /\ \E i \in 1..Len(lines) : StartsWith(lines[i], << " " >>)
    /\ ret = diff

\* The numbers a tag can carry for the diffs enumerated.
TagNumbers == { h.c + d : h \in HunkLines, d \in 0..MaxLines }

\* The last n characters of out.
Suffix(out, n) == SubSeq(out, Len(out) - n + 1, Len(out))

\* The returned text is the argument with prefixes added to some lines.
Decorates ==
    LET out == Split(ret, "\n")
        in == Split(diff, "\n")
    IN  /\ Len(out) = Len(in)
        /\ \A i \in 1..Len(in) :
              /\ \/ out[i] = in[i]
                 \/ \E k \in TagNumbers : out[i] = Tagged(k, in[i])
              /\ (IsHeader(in[i]) \/ StartsWith(in[i], << "-" >>)) => out[i] = in[i]
        /\ Join([i \in 1..Len(out) |-> Suffix(out[i], Len(in[i]))], "\n") = diff

\* C8 (only decorates): for every text the call yields a text with the same
\* lines in the same order, each unchanged or prefixed with a tag, headers and
\* deletions never tagged, and the argument is recovered by removing the tags.
C8_OnlyDecorates ==
    /\ pc # "raised"
    /\ pc = "done" => Decorates

(***************************************************************************)
(* Properties of the file selection                                        *)
(***************************************************************************)

\* The entry is one of filtered_changes.
Kept(e) == \E i \in 1..Len(filtered_changes) : filtered_changes[i] = e

\* The entries of file_changes.
Given == { file_changes[i] : i \in 1..Len(file_changes) }

Ignored(e) == should_ignore_file(e.path, config.ignore_patterns)

\* C9 (size threshold): after the filter loop an entry whose diff is longer
\* than max_file_size is not kept, ignored path or not; an entry of a path
\* that is not ignored is kept when its diff has exactly max_file_size
\* characters and dropped when it has max_file_size + 1.
C9_SizeThreshold ==
    rpc = "filtered" =>
        \A e \in Given :
            /\ Len(e.diff) > config.max_file_size => ~Kept(e)
            /\ (Len(e.diff) = config.max_file_size /\ ~Ignored(e)) => Kept(e)
            /\ Len(e.diff) = config.max_file_size + 1 => ~Kept(e)

\* One call held a diff of exactly max_file_size, kept, and a diff one
\* character longer under a path that is not ignored, dropped.
C9_Witness ==
    /\ rpc = "filtered"
    /\ \E e \in Given :
          Len(e.diff) = config.max_file_size /\ ~Ignored(e) /\ Kept(e)
    /\ \E e \in Given :
          Len(e.diff) = config.max_file_size + 1 /\ ~Ignored(e) /\ ~Kept(e)

\* s ends with suffix.
EndsWith(s, suffix) ==
    /\ Len(s) >= Len(suffix)
    /\ SubSeq(s, Len(s) - Len(suffix) + 1, Len(s)) = suffix

\* The pattern holds none of '*', '?', '['.
IsLiteral(pat) == Chars(pat) \cap { "*", "?", "[" } = { }

\* What glob matching of the whole path means for the two simplest shapes
\* of pattern: a literal pattern matches only the path equal to it, and
\* '*' followed by a literal matches the paths that end with the literal.
GlobMeaning(path, pat) ==
    IF IsLiteral(pat) THEN path = pat
    ELSE EndsWith(path, Tail(pat))

SimplePattern(pat) ==
    IsLiteral(pat) \/ (pat[1] = "*" /\ IsLiteral(Tail(pat)))

\* C10 (ignore patterns): a path is ignored exactly when some pattern of the
\* configuration matches the whole path, so among the entries small enough
\* the kept ones are those no pattern matches; a further pattern never makes
\* an ignored path reviewed; '*.md' alone drops README.md and keeps
\* src/README.md.bak, and 'README.md' alone keeps src/README.md.
C10_IgnoreByFullPath ==
    rpc = "filtered" =>
        LET pats == config.ignore_patterns IN
        \A e \in Given :
            /\ Len(e.diff) <= config.max_file_size =>
                  (Kept(e) <=> ~(\E i \in 1..Len(pats) : fnmatch(e.path, pats[i])))
            /\ (\A i \in 1..Len(pats) : SimplePattern(pats[i])) =>
                  (Ignored(e) <=> \E i \in 1..Len(pats) : GlobMeaning(e.path, pats[i]))
            /\ \A q \in Patterns :
                  Ignored(e) =>
                      /\ should_ignore_file(e.path, Append(pats, q))
                      /\ should_ignore_file(e.path, << q >> \o pats)
            /\ (pats = << G_StarMd >> /\ e.path = P_README) => ~Kept(e)
            /\ (pats = << G_StarMd >> /\ e.path = P_SrcREADMEbak
                    /\ Len(e.diff) <= config.max_file_size) => Kept(e)
            /\ (pats = << P_README >> /\ e.path = P_SrcREADME
                    /\ Len(e.diff) <= config.max_file_size) => Kept(e)

\* With '*.md' as the only pattern, README.md was dropped and
\* src/README.md.bak was kept.
C10_Witness ==
    /\ rpc = "filtered"
    /\ config.ignore_patterns = << G_StarMd >>
    /\ \E e \in Given : e.path = P_README /\ ~Kept(e)
    /\ \E e \in Given : e.path = P_SrcREADMEbak /\ Kept(e)

\* The entry passes both tests of the selection.
Survives(e) ==
    /\ ~(\E i \in 1..Len(config.ignore_patterns) :
            fnmatch(e.path, config.ignore_patterns[i]))
    /\ Len(e.diff) <= config.max_file_size

\* The positions in file_changes of the entries that pass.
SurvivorIdx == { i \in 1..Len(file_changes) : Survives(file_changes[i]) }

\* The position among the survivors of the survivor at position i.
Rank(i) == Cardinality({ j \in SurvivorIdx : j <= i })

\* After the filter loop filtered_changes holds exactly the entries that
\* pass, in the order of file_changes, path and diff as given.
C11_Selected ==
    rpc \notin { "idle", "call" } =>
        /\ Len(filtered_changes) = Cardinality(SurvivorIdx)
        /\ \A i \in SurvivorIdx : filtered_changes[Rank(i)] = file_changes[i]

\* No step of review_changes changes its argument or the configuration.
C11_Frame == file_changes' = file_changes /\ config' = config

\* C11 (pure, order-preserving filter): the surviving entries are exactly the
\* entries whose path matches no pattern and whose diff is at most
\* max_file_size long, in their order in the input and with their diff
\* unchanged; the input mapping and the configuration are left as they were.
C11_PureOrderedFilter == [](C11_Selected) /\ [][C11_Frame]_vars

\* Two entries were given and both survived, in the order given.
C11_Witness ==
    /\ rpc = "filtered"
    /\ Len(file_changes) = 2
    /\ file_changes[1].path # file_changes[2].path
    /\ filtered_changes = file_changes

(***************************************************************************)
(* Properties of the fast path, the prompt and the agent run               *)
(***************************************************************************)

\* No entry of file_changes survives the filter.
NoSurvivor == SurvivorIdx = { }

\* C12 (empty-set fast path): once the filter of review_changes has run and
\* no entry survived it (every entry ignored or oversized, or no entry
\* given), the agent is never run and no exception leaves review_changes,
\* and what review_changes returns is the response with the summary
\* 'No files to review (all files filtered out).', no comments and
\* approved = true.
C12_FastPath ==
    (rpc \notin { "idle", "call" } /\ NoSurvivor) =>
        /\ agent_calls = << >>
        /\ model_output = None
        /\ rpc \in { "filtered", "returned" }
        /\ rpc = "returned" =>
              /\ review_result # None
              /\ review_result[1].summary = NoFilesSummary
              /\ review_result[1].comments = << >>
              /\ review_result[1].approved = TRUE

\* Two entries were given, one ignored and one oversized, and review_changes
\* has returned.
C12_Witness ==
    /\ rpc = "returned"
    /\ Len(file_changes) = 2
    /\ NoSurvivor
    /\ \E i \in 1..2 : Len(file_changes[i].diff) > config.max_file_size
    /\ \E i \in 1..2 : \E k \in 1..Len(config.ignore_patterns) :
          fnmatch(file_changes[i].path, config.ignore_patterns[k])
    /\ review_result # None

\* review_changes has finished: it returned or an exception left it.
ReviewFinished == rpc \in { "returned", "raised" }

\* C13 (one agent run, output returned verbatim): whenever at least one
\* entry survives the filter, a finished call of review_changes has run the
\* agent exactly once, on one prompt for all the surviving diffs, and,
\* unless the agent run itself failed, has returned the output of that run:
\* same summary, same comments in the same order, same approved flag.
C13_InvokesOnceVerbatim ==
    (ReviewFinished /\ ~NoSurvivor) =>
        /\ Len(agent_calls) = 1
        /\ rexc # "ModelError" =>
              /\ rpc = "returned"
              /\ model_output # None
              /\ review_result = model_output

\* The lines of a text: the pieces between its line feeds, each one from
\* after the line feed before it (or the start) up to the next line feed
\* (or the end).
LinesOf(text) ==
    LET lf == { j \in 1..Len(text) : text[j] = "\n" }
        cut == lf \cup { 0, Len(text) + 1 }
        Nth(k) == CHOOSE j \in cut : Cardinality({ h \in cut : h < j }) = k
    IN  [k \in 1..(Cardinality(lf) + 1) |-> SubSeq(text, Nth(k - 1) + 1, Nth(k) - 1)]

\* The label line of a file's section, without the path.
FileLabel == SubSeq(L_File, 2, Len(L_File))

\* The positions of the label lines among the lines pl, and the k-th of
\* them.
SectionAt(pl) == { j \in 1..Len(pl) : StartsWith(pl[j], FileLabel) }
NthSection(pl, k) ==
    CHOOSE j \in SectionAt(pl) : Cardinality({ h \in SectionAt(pl) : h <= j }) = k

\* Line j of pl starts a section for entry e: its label with the path, an
\* empty line, the opening fence, the annotated diff line by line, the
\* closing fence.
SectionOf(pl, j, e) ==
    LET a == LinesOf(annotate_diff_with_line_numbers(e.diff).text)
        n == Len(a)
    IN  /\ j + 3 + n <= Len(pl)
        /\ pl[j] = FileLabel \o e.path
        /\ pl[j + 1] = << >>
        /\ pl[j + 2] = L_FenceDiff
        /\ \A k \in 1..n : pl[j + 2 + k] = a[k]
        /\ pl[j + 3 + n] = L_Fence

\* The lines of pl starting with a label are there exactly when the text
\* is not empty, hold the text, and come before every file section.
LabelledLine(pl, label, text) ==
    LET at == { j \in 1..Len(pl) : StartsWith(pl[j], label) }
    IN  /\ (at # { }) <=> (text # << >>)
        /\ Cardinality(at) <= 1
        /\ \A j \in at :
              /\ pl[j] = label \o text
              /\ \A h \in SectionAt(pl) : j < h

\* C14 (prompt assembly): the prompt handed to the agent has one labelled
\* section per surviving entry, in the order of the survivors, each holding
\* that file's annotated diff between the fences, and no section for an
\* ignored or oversized file; it has the 'PR Title: ' line exactly when
\* pr_title is not empty and the 'PR Description: ' line exactly when
\* pr_description is not empty, both before the file sections.
C14_PromptAssembly ==
    agent_calls # << >> =>
        LET pl == LinesOf(agent_calls[1])
        IN  /\ Len(agent_calls) = 1
            /\ Cardinality(SectionAt(pl)) = Cardinality(SurvivorIdx)
            /\ \A i \in SurvivorIdx :
                  SectionOf(pl, NthSection(pl, Rank(i)), file_changes[i])
            /\ LabelledLine(pl, L_PRTitle, pr_title)
            /\ LabelledLine(pl, L_PRDescription, pr_description)

\* A prompt was sent for two entries given, of which one was dropped and
\* the other has a hunk whose lines are tagged; with a title, without a
\* description.
C14_Witness ==
    /\ agent_calls # << >>
    /\ Len(file_changes) = 2
    /\ \E i \in 1..2 :
          /\ SurvivorIdx = { i }
          /\ file_changes[i].diff = D_Hunk
    /\ pr_title # << >>
    /\ pr_description = << >>

(***************************************************************************)
(* Properties of post_review                                               *)
(***************************************************************************)

\* The positions at which sub occurs in text, from position from on.
OccursAt(text, sub, from) ==
    { j \in from..(Len(text) - Len(sub) + 1) : SubSeq(text, j, j + Len(sub) - 1) = sub }

Contains(text, sub) == OccursAt(text, sub, 1) # { }

\* The texts of items occur in text one after the other, without overlap.
RECURSIVE InOrder(_, _, _)
InOrder(text, items, from) ==
    IF items = << >> THEN TRUE
    ELSE LET at == OccursAt(text, Head(items), from)
         IN  /\ at # { }
             /\ LET first == CHOOSE j \in at : \A h \in at : j <= h
                IN  InOrder(text, Tail(items), first + Len(Head(items)))

\* post_review has finished: it returned or an exception left it.
PostFinished == ppc \in { "returned", "raised" }

IsReview(c) == c.api = "create_review"
IsIssueComment(c) == c.api = "create_issue_comment"

\* A suggestion is present: there is one and it is not the empty text.
Present(suggestion) == suggestion # None /\ suggestion # Some(<< >>)

\* The categories of the enumerated comments, in capitals.
UpperOf(category) ==
    CASE category = << "b", "u", "g" >> -> << "B", "U", "G" >>
      [] category = << "s", "t", "y", "l", "e" >> -> << "S", "T", "Y", "L", "E" >>
      [] category = << "d", "o", "c", "s" >> -> << "D", "O", "C", "S" >>

\* C15 (no comments): for a review without comments post_review makes one
\* call only, a create_review with event COMMENT and no inline comments
\* whose body is the title line, the approval line and the summary; it
\* never posts an issue comment, whether that call succeeds or fails.
C15_GeneralOnly ==
    review.comments = << >> =>
        /\ Len(calls) <= 1
        /\ \A k \in 1..Len(calls) :
              /\ IsReview(calls[k])
              /\ calls[k].comments = None
              /\ calls[k].event = "COMMENT"
              /\ LinesOf(calls[k].body)
                    = << << "#", "#", " " >> \o review_title, << >>,
                         ApprovalStatus(review.approved), << >>, review.summary >>
        /\ PostFinished => Len(calls) = 1

\* The one general review of a review without comments failed, and
\* post_review ended there.
C15_Witness ==
    /\ review.comments = << >>
    /\ ppc = "raised"
    /\ Len(calls) = 1
    /\ ~calls[1].ok

\* The inline comment ic is the one of the ReviewComment c.
InlineOf(ic, c) ==
    /\ ic.path = c.path
    /\ ic.line = c.line
    /\ ic.side = "RIGHT"
    /\ SeverityEmoji(c.severity) # << >>
    /\ StartsWith(ic.body, SeverityEmoji(c.severity))
    /\ InOrder(ic.body, << UpperOf(c.category), c.message >>, 1)
    /\ Contains(ic.body, L_SuggestedFix) <=> Present(c.suggestion)
    /\ Present(c.suggestion) =>
          InOrder(ic.body, << c.message, L_SuggestedFix,
                              L_Fence \o << "\n" >> \o c.suggestion[1] \o << "\n" >> \o L_Fence >>, 1)

\* C16 (inline comments): for a review with comments the first call of
\* post_review is a create_review carrying one inline comment per
\* ReviewComment, in the same order, none dropped or added: each on the
\* comment's path and line, side RIGHT, its body starting with the severity
\* marker and holding the category in capitals, the message, and the fenced
\* suggested-fix block exactly when a suggestion is present.
C16_InlineComments ==
    (review.comments # << >> /\ calls # << >>) =>
        /\ IsReview(calls[1])
        /\ calls[1].comments # None
        /\ Len(calls[1].comments[1]) = Len(review.comments)
        /\ \A k \in 1..Len(review.comments) :
              InlineOf(calls[1].comments[1][k], review.comments[k])

\* The review posted has two different comments, one with a suggestion and
\* one whose suggestion is the empty text.
C16_Witness ==
    /\ calls # << >>
    /\ review.comments = << Cm_Error, Cm_Info >>

\* C17 (approval state always presented): every body post_review sends,
\* be it of the general review, of the review with inline comments or of
\* the issue comment, holds the approval line of review.approved and, after
\* it, the summary.
C17_ApprovalInEveryBody ==
    \A k \in 1..Len(calls) :
        InOrder(calls[k].body,
                << ApprovalStatus(review.approved), review.summary >>, 1)

\* A review with inline comments failed at call k of post_review.
InlineFailedAt(k) ==
    /\ IsReview(calls[k])
    /\ calls[k].comments # None
    /\ ~calls[k].ok

\* A review without inline comments failed at call k of post_review.
BodyOnlyFailedAt(k) ==
    /\ IsReview(calls[k])
    /\ calls[k].comments = None
    /\ ~calls[k].ok

\* C18 as stated (three stages): after a failed review with inline comments
\* the next call is a review without inline comments, and an issue comment
\* is posted only right after such a body-only review has failed.
C18_ThreeStages ==
    \A k \in 1..Len(calls) :
        /\ (InlineFailedAt(k) /\ k < Len(calls)) =>
              (IsReview(calls[k + 1]) /\ calls[k + 1].comments = None)
        /\ IsIssueComment(calls[k]) => (k > 1 /\ BodyOnlyFailedAt(k - 1))

\* C18 (posting protocol, two stages): when posting the review with inline
\* comments fails, the next thing post_review does is post the one flat
\* issue comment; for a review with comments no review without inline
\* comments is attempted, before or after.
C18_TwoStages ==
    /\ \A k \in 1..Len(calls) :
          InlineFailedAt(k) =>
              \/ (k = Len(calls) /\ ppc = "except")
              \/ (k < Len(calls) /\ IsIssueComment(calls[k + 1]))
    /\ review.comments # << >> =>
          \A k \in 1..Len(calls) : IsReview(calls[k]) => calls[k].comments # None
    /\ \A k \in 1..Len(calls) :
          IsIssueComment(calls[k]) => (k > 1 /\ InlineFailedAt(k - 1))

\* The review with inline comments failed and the issue comment that
\* followed it went through.
C18_Witness ==
    /\ Len(calls) = 2
    /\ InlineFailedAt(1)
    /\ IsIssueComment(calls[2])
    /\ calls[2].ok
    /\ ppc = "returned"

\* What the issue comment shows of one comment, in the order it shows it.
FlatItems(c) ==
    << c.path \o << ":" >> \o IntToStr(c.line), UpperOf(c.category), c.message >>
        \o (IF Present(c.suggestion) THEN << c.suggestion[1] >> ELSE << >>)

RECURSIVE AllFlatItems(_)
AllFlatItems(comments) ==
    IF comments = << >> THEN << >>
    ELSE FlatItems(Head(comments)) \o AllFlatItems(Tail(comments))

\* C19 (fallback to an issue comment): for a review with comments whose
\* posting failed, a finished post_review has posted exactly one issue
\* comment, and its body holds the summary and then, comment after comment
\* in the order of the review, the path:line, the category in capitals, the
\* message and, when present, the suggestion.
C19_IssueCommentFallback ==
    (PostFinished /\ review.comments # << >> /\ ~calls[1].ok) =>
        /\ Cardinality({ k \in 1..Len(calls) : IsIssueComment(calls[k]) }) = 1
        /\ IsIssueComment(calls[Len(calls)])
        /\ InOrder(calls[Len(calls)].body,
                   << review.summary >> \o AllFlatItems(review.comments), 1)

\* The fallback has run for a review of two different comments, the first
\* without a suggestion and the second with one.
C19_Witness ==
    /\ PostFinished
    /\ review.comments = << Cm_Warning, Cm_Error >>
    /\ ~calls[1].ok

\* C20 (sequential, never retried): in one call of post_review the review
\* is posted at most once and the issue comment at most once; the issue
\* comment comes only right after a failed review; every call but the last
\* has failed, so nothing is posted after a success; and once post_review
\* has finished no further call is made.
C20_Chain ==
    /\ Cardinality({ k \in 1..Len(calls) : IsReview(calls[k]) }) <= 1
    /\ Cardinality({ k \in 1..Len(calls) : IsIssueComment(calls[k]) }) <= 1
    /\ \A k \in 1..Len(calls) :
          IsIssueComment(calls[k]) =>
              (k > 1 /\ IsReview(calls[k - 1]) /\ ~calls[k - 1].ok)
    /\ \A k \in 1..(Len(calls) - 1) : ~calls[k].ok
    /\ (calls # << >> /\ calls[Len(calls)].ok) => ppc = "returned"

C20_NoCallAfterEnd == PostFinished => calls' = calls

C20_NeverRetried == [](C20_Chain) /\ [][C20_NoCallAfterEnd]_vars

\* Both stages were attempted once and both failed.
C20_Witness ==
    /\ ppc = "raised"
    /\ Len(calls) = 2
    /\ ~calls[1].ok
    /\ ~calls[2].ok

\* C21 (a single stage failure is not fatal): for every review, with or
\* without comments, an exception leaves post_review only when every call
\* made has failed and the last of them is the issue comment; whenever
\* some call went through, post_review returns.
C21_FailsOnlyWhenExhausted ==
    /\ ppc = "raised" =>
          /\ \A k \in 1..Len(calls) : ~calls[k].ok
          /\ calls # << >>
          /\ IsIssueComment(calls[Len(calls)])
    /\ (PostFinished /\ \E k \in 1..Len(calls) : calls[k].ok) => ppc = "returned"

(***************************************************************************)
(* Properties of the commands                                              *)
(***************************************************************************)

Exited == mpc = "exited"

\* The run went through to the end of post_review.
Completed == mpc = "exited" /\ rpc = "returned" /\ ppc = "returned"

\* C22 (exit status): a run ends with code 0 exactly when post_review
\* returned and the result is approved; a completed run that is not
\* approved ends with 1, and so does every run an Exception ended, a failed
\* post_review of an approved result included.  Comments play no part.
C22_ExitStatus ==
    Exited =>
        /\ exit_code # None
        /\ exit_code = Some(0) <=> (Completed /\ review_result[1].approved)
        /\ (Completed /\ ~review_result[1].approved) => exit_code = Some(1)
        /\ (~Completed /\ rexc # "CancelledError") => exit_code = Some(1)
        /\ ppc = "raised" => exit_code = Some(1)

\* post_review of an approved result with comments failed in all its
\* stages and the run ended with 1.
C22_Witness ==
    /\ Exited
    /\ ppc = "raised"
    /\ review.approved
    /\ review.comments # << >>
    /\ exit_code = Some(1)

\* The agent run raised, or the run was cancelled while it was awaited.
ModelFailed == rpc = "raised" /\ rexc \in { "ModelError", "CancelledError" }

\* C23 (a model failure aborts the run): once the agent run raised or was
\* cancelled, review_changes has no result, the agent was run once, no
\* GitHub call is ever made, and the only step left ends the run with a
\* status other than 0.
C23_ModelFailureAborts ==
    /\ [](ModelFailed =>
            /\ review_result = None
            /\ Len(agent_calls) = 1
            /\ calls = << >>
            /\ ppc = "idle"
            /\ \A k \in 1..Len(ops) : ops[k].op # "post_review"
            /\ Exited => (exit_code # None /\ exit_code # Some(0)))
    /\ [][ModelFailed => (Exited' /\ exit_code' # None /\ exit_code' # Some(0))]_vars

\* The agent run raised and the run has ended.
C23_Witness ==
    /\ rpc = "raised"
    /\ rexc = "ModelError"
    /\ Exited
    /\ exit_code = Some(1)

OpNames == << "get_pr_files", "review_changes", "post_review" >>

\* C24 (one sequential flow): the operations of a run are a prefix of
\* fetch, review_changes, post_review; a failed fetch is the last of them;
\* the agent is run at most once; post_review is called at most once and
\* only with the result review_changes returned.
C24_SequentialFlow ==
    /\ Len(ops) <= 3
    /\ \A k \in 1..Len(ops) : ops[k].op = OpNames[k]
    /\ (ops # << >> /\ ~ops[1].ok) =>
          /\ Len(ops) = 1
          /\ rpc = "idle" /\ ppc = "idle"
          /\ agent_calls = << >> /\ calls = << >>
    /\ rpc # "idle" <=> Len(ops) >= 2
    /\ ppc # "idle" <=> Len(ops) = 3
    /\ Len(agent_calls) <= 1
    /\ agent_calls # << >> => Len(ops) >= 2
    /\ calls # << >> => Len(ops) = 3
    /\ ppc # "idle" => (rpc = "returned" /\ review_result # None /\ review = review_result[1])

\* A run that fetched, ran the agent once, posted and ended.
C24_Witness ==
    /\ Exited
    /\ Len(ops) = 3
    /\ Len(agent_calls) = 1
    /\ calls # << >>

\* The result review_changes makes up when nothing is left to review.
Synthesized == CodeReviewResponse(NoFilesSummary, << >>, TRUE)

\* No file of the pull request reaches the prompt.
NothingSurvived == rpc = "returned" /\ filtered_changes = << >>

\* C30 (the fast path is posted): in a run where no file survives the
\* filter, or no file has a patch, the agent is never run, post_review is
\* called with the synthesized result and makes one create_review call
\* without comments, whose body holds the approved header and the summary
\* 'No files to review (all files filtered out).'; the run ends with 0
\* when GitHub acknowledges that call.
C30_FastPathPosted ==
    NothingSurvived =>
        /\ agent_calls = << >>
        /\ review_result = Some(Synthesized)
        /\ ppc # "idle" => review = Synthesized
        /\ Len(calls) <= 1
        /\ \A k \in 1..Len(calls) :
              /\ IsReview(calls[k])
              /\ calls[k].comments = None
              /\ InOrder(calls[k].body, << ApprovalStatus(TRUE), NoFilesSummary >>, 1)
        /\ Exited =>
              /\ Len(ops) = 3
              /\ Len(calls) = 1
              /\ calls[1].ok <=> exit_code = Some(0)

\* Every file of a pull request with files was filtered out, the general
\* review was posted and the run ended with 0.
C30_Witness ==
    /\ NothingSurvived
    /\ file_changes # << >>
    /\ Exited
    /\ Len(calls) = 1
    /\ calls[1].ok
    /\ exit_code = Some(0)

(***************************************************************************)
(* Properties of CodeReviewer.__init__                                     *)
(***************************************************************************)

\* What a run with configuration cfg finds in the environment env for its
\* provider: the API key and the base URL.
Seen(cfg, env) ==
    [key |-> IF KeyVar(cfg.model_provider) = "" THEN None
             ELSE env[KeyVar(cfg.model_provider)],
     url |-> IF UrlVar(cfg.model_provider) = "" THEN None
             ELSE env[UrlVar(cfg.model_provider)]]

\* C25 (no state crosses runs): the key and the base URL run B
\* finds are those it finds when it is the only run of the process.
C25_RunsAreIndependent ==
    cpc = Len(cfgs) => Seen(cfgs[cpc], environ) = Seen(cfgs[cpc], environ_alone.after)

\* The identifier with google-gla for gemini and the provider name for
\* every other provider.
ModelId_GoogleGla(cfg) ==
    IF cfg.model_provider = PV.gemini
    THEN << "g", "o", "o", "g", "l", "e", "-", "g", "l", "a", ":" >> \o cfg.model_name
    ELSE cfg.model_provider \o << ":" >> \o cfg.model_name

\* C26 (model identifier): the identifier of a reviewer is the provider
\* name, a colon and the model name, with google-gla in the place of the
\* provider name for gemini.
C26_FlatLookup ==
    cpc > 0 => model = Some(ModelId_GoogleGla(cfgs[cpc]))

(***************************************************************************)
(* Properties of GitHubReviewPoster.from_env                               *)
(***************************************************************************)

EnvFinished == epc \in { "returned", "raised" }

\* The pieces of a text between the occurrences of a separator.
PiecesOf(text, sep) ==
    LET at == { j \in 1..Len(text) : text[j] = sep }
        cut == at \cup { 0, Len(text) + 1 }
        Nth(k) == CHOOSE j \in cut : Cardinality({ h \in cut : h < j }) = k
    IN  [k \in 1..(Cardinality(at) + 1) |-> SubSeq(text, Nth(k - 1) + 1, Nth(k) - 1)]

\* The N of a ref 'refs/pull/N/merge', None for every other ref.
PullRefNumber(ref) ==
    LET parts == PiecesOf(ref, "/") IN
    IF /\ Len(parts) = 4
       /\ parts[1] = << "r", "e", "f", "s" >>
       /\ parts[2] = << "p", "u", "l", "l" >>
       /\ parts[4] = << "m", "e", "r", "g", "e" >>
       /\ IsIntLiteral(parts[3])
    THEN Some(IntVal(parts[3]))
    ELSE None

\* pull_request.number of the payload file, None when the path is not
\* set, the file is missing or the payload has no such number.
PayloadNumber ==
    IF /\ GetOr(getenv.GITHUB_EVENT_PATH, << >>) # << >>
       /\ getenv.event_file # None
       /\ getenv.event_file[1].pull_request # None
    THEN getenv.event_file[1].pull_request[1].number
    ELSE None

\* The number the two sources give: that of the pull ref, else that of the
\* payload.
Resolved ==
    IF PullRefNumber(GetOr(getenv.GITHUB_REF, << >>)) # None
    THEN PullRefNumber(GetOr(getenv.GITHUB_REF, << >>))
    ELSE PayloadNumber

\* C27 (PR number from the environment): when from_env has finished, the
\* number is that of the pull ref, else that of the payload, and when
\* there is neither the ValueError 'Could not determine PR number from
\* environment' was raised; no other exception leaves the resolution.
C27_ResolvesPRNumber ==
    EnvFinished =>
        /\ eexc \in { "", E_NoPRNumber, E_Github }
        /\ Resolved = None <=> eexc = E_NoPRNumber
        /\ Resolved # None => pr_number = Resolved

(***************************************************************************)
(* Properties of post_review: the review event                             *)
(***************************************************************************)

\* C28 (always the event COMMENT): every create_review call, with or
\* without inline comments and whatever the approved flag, carries the
\* event COMMENT, and the approval status is a line of its body.
C28_EventIsComment ==
    \A k \in 1..Len(calls) :
        IsReview(calls[k]) =>
            /\ calls[k].event = "COMMENT"
            /\ calls[k].event \notin { "APPROVE", "REQUEST_CHANGES" }
            /\ \E j \in 1..Len(LinesOf(calls[k].body)) :
                  LinesOf(calls[k].body)[j] = ApprovalStatus(review.approved)

\* A review that is not approved was posted with its inline comments.
C28_Witness ==
    /\ ppc = "returned"
    /\ ~review.approved
    /\ Len(calls) = 1
    /\ IsReview(calls[1])
    /\ calls[1].comments # None
    /\ calls[1].ok

(***************************************************************************)
(* Properties of annotate_diff_with_line_numbers: a second pass            *)
(***************************************************************************)

\* The outcome of annotating the text the first pass returned.
SecondPass == AnnotateResult(AnnotateFrom(LinesOf(ret), 1, None, << >>))

\* C29 (idempotent): annotating the text annotate_diff_with_line_numbers
\* returned raises nothing and returns that text again, and every line the
\* first pass tagged is a line the second pass leaves as it is.
C29_Idempotent ==
    pc = "done" =>
        /\ SecondPass.exc = ""
        /\ SecondPass.text = ret
        /\ \A i \in 1..Len(result) :
              result[i] # lines[i] =>
                  /\ result[i][1] = "["
                  /\ LineStep(result[i], trace[i]).out = result[i]

\* A diff with two hunks was annotated and some line of it was tagged.
C29_Witness ==
    /\ pc = "done"
    /\ ret # diff
    /\ Cardinality({ i \in 1..Len(lines) : IsHeader(lines[i]) }) >= 2
    /\ \E i \in 1..Len(result) : result[i] # lines[i]

====
